---- MODULE Spec2Model ----
(***************************************************************************)
(* Lip-sync core of the booktalk client (src/app/page.tsx): the text       *)
(* analyzer (estimateSpeechDuration, estimateSyllables), the viseme        *)
(* classifier (pickVisemeForChunk), the viseme scheduler                   *)
(* (generateVisemeSequence) and the playback driver (applyViseme,          *)
(* stopVisemePlayback, startVisemePlayback and its step callback).         *)
(*                                                                         *)
(* Strings are sequences of one-character strings.  JavaScript numbers     *)
(* that carry fractions (durations, event times, elapsed time) are IEEE    *)
(* 754 binary64 values, modelled bit for bit: a positive value is a record *)
(* [m, e] with m the 53 significand bits, most significant first and       *)
(* leading bit 1, and value m * 2^e; every operation rounds to nearest,    *)
(* ties to even.  The values that occur are far from the subnormal and     *)
(* overflow ranges, so neither is modelled; none is negative.              *)
(***************************************************************************)
EXTENDS Integers, Sequences, FiniteSets

(***************************************************************************)
(* Bounds of the model.                                                    *)
(***************************************************************************)
\* longest text enumerated exhaustively over Alphabet
MaxLen == 2
\* most repetitions of a unit in the long texts
MaxRep == 7
\* last value of performance.now() (milliseconds) the driver is run to
MaxClock == 500
\* most startVisemePlayback calls in one run
MaxStarts == 2
\* most model loads (loader.load onLoad) in one run
MaxLoads == 1
\* most utterances and most models loaded in one run of the renderer across
\* a change of character
MaxJawStarts == 1
MaxJawLoads == 2
\* most calls of send in one run of the chat client
MaxSends == 2
\* most calls of send in one run of the chat client with its speech
MaxSpeakSends == 1
\* most utterances in one run of the renderer
MaxSmoothStarts == 1
\* last value of performance.now() (milliseconds) the renderer is run to
MaxSmoothClock == 400

(***************************************************************************)
(* binary64 arithmetic.  Natural numbers too wide for one integer are      *)
(* sequences of limbs, most significant first, in base LimbBase.           *)
(***************************************************************************)
\* significand width of a JavaScript number
MantissaBits == 53

LimbBase == 2^16
LimbBits == CHOOSE k \in 1..30 : 2^k = LimbBase

Zero == [m |-> <<>>, e |-> 0]

\* number of binary digits of a natural number below 2^30
BitLenNat(n) ==
  IF n = 0 THEN 0 ELSE CHOOSE j \in 1..30 : 2^(j - 1) <= n /\ n < 2^j

RECURSIVE StripLimbs(_)
StripLimbs(a) ==
  IF a = <<>> THEN <<>>
  ELSE IF Head(a) # 0 THEN a
  ELSE StripLimbs(Tail(a))

\* number of binary digits of a limb sequence without leading zero limbs
BitLenBig(a) ==
  IF a = <<>> THEN 0 ELSE LimbBits * (Len(a) - 1) + BitLenNat(a[1])

\* a natural number below 2^31 as limbs
BigOfNat(n) == StripLimbs(<<n \div LimbBase, n % LimbBase>>)

RECURSIVE MulSmallFrom(_, _, _, _)
\* (the first i limbs of a) * k + carry, for k < 2^14
MulSmallFrom(a, k, i, carry) ==
  IF i = 0 THEN BigOfNat(carry)
  ELSE LET v == a[i] * k + carry
       IN Append(MulSmallFrom(a, k, i - 1, v \div LimbBase), v % LimbBase)

MulSmall(a, k) == StripLimbs(MulSmallFrom(a, k, Len(a), 0))

RECURSIVE DivSmallFrom(_, _, _, _)
\* long division of the limbs of a from position i on by k < 2^14, with
\* remainder r carried in: <<quotient limbs, remainder>>
DivSmallFrom(a, k, i, r) ==
  IF i > Len(a) THEN <<(<<>>), r>>
  ELSE LET v    == r * LimbBase + a[i]
           rest == DivSmallFrom(a, k, i + 1, v % k)
       IN <<(<<v \div k>>) \o rest[1], rest[2]>>

RECURSIVE AddBigFrom(_, _, _, _)
\* sum of the first i limbs of a and b (equal lengths) plus carry
AddBigFrom(a, b, i, carry) ==
  IF i = 0 THEN (IF carry = 0 THEN <<>> ELSE <<carry>>)
  ELSE LET v == a[i] + b[i] + carry
       IN Append(AddBigFrom(a, b, i - 1, v \div LimbBase), v % LimbBase)

ZeroLimbs(n) == [i \in 1..n |-> 0]

AddBig(a, b) ==
  LET n  == IF Len(a) > Len(b) THEN Len(a) ELSE Len(b)
      ap == ZeroLimbs(n - Len(a)) \o a
      bp == ZeroLimbs(n - Len(b)) \o b
  IN StripLimbs(AddBigFrom(ap, bp, n, 0))

\* a * 2^s
ShiftLeft(a, s) ==
  IF a = <<>> THEN <<>>
  ELSE MulSmall(a, 2^(s % LimbBits)) \o ZeroLimbs(s \div LimbBits)

\* <<a \div 2^s, whether a % 2^s is non-zero>>
ShiftRight(a, s) ==
  LET whole == s \div LimbBits
      n     == Len(a)
      kept  == IF whole >= n THEN <<>> ELSE SubSeq(a, 1, n - whole)
      lost  == \E i \in 1..n : i > n - whole /\ a[i] # 0
      qr    == DivSmallFrom(kept, 2^(s % LimbBits), 1, 0)
  IN <<StripLimbs(qr[1]), lost \/ qr[2] # 0>>

\* the binary64 nearest to a * 2^e (plus a non-zero tail below the last
\* bit of a when sticky), ties to even
RoundBig(a, e, sticky) ==
  LET P == MantissaBits
      n == BitLenBig(a)
  IN IF n = 0 THEN Zero
     ELSE IF n <= P THEN [m |-> ShiftLeft(a, P - n), e |-> e - (P - n)]
     ELSE LET s     == n - P
              g     == ShiftRight(a, s - 1)
              guard == g[1][Len(g[1])] % 2
              keep  == ShiftRight(g[1], 1)[1]
              rest  == sticky \/ g[2]
              up    == guard = 1 /\ (rest \/ keep[Len(keep)] % 2 = 1)
              r     == IF up THEN AddBig(keep, <<1>>) ELSE keep
          IN IF BitLenBig(r) > P
             THEN [m |-> ShiftRight(r, 1)[1], e |-> e + s + 1]
             ELSE [m |-> r, e |-> e + s]

\* an integer below 2^31 as a number
FromInt(n) == RoundBig(BigOfNat(n), 0, FALSE)

\* x + y
FAdd(x, y) ==
  IF x = Zero THEN y
  ELSE IF y = Zero THEN x
  ELSE LET e == IF x.e < y.e THEN x.e ELSE y.e
       IN RoundBig(AddBig(ShiftLeft(x.m, x.e - e), ShiftLeft(y.m, y.e - e)),
                   e, FALSE)

\* x * k for a natural k < 2^14
FMulInt(x, k) ==
  IF x = Zero \/ k = 0 THEN Zero
  ELSE RoundBig(MulSmall(x.m, k), x.e, FALSE)

\* x / k for an integer 0 < k < 2^14
FDivInt(x, k) ==
  IF x = Zero THEN Zero
  ELSE LET z  == BitLenNat(k) + 2
           qr == DivSmallFrom(ShiftLeft(x.m, z), k, 1, 0)
       IN RoundBig(StripLimbs(qr[1]), x.e - z, qr[2] # 0)

RECURSIVE LimbsLess(_, _, _)
LimbsLess(a, b, i) ==
  IF i > Len(a) THEN FALSE
  ELSE IF a[i] # b[i] THEN a[i] < b[i]
  ELSE LimbsLess(a, b, i + 1)

\* x < y
FLess(x, y) ==
  IF y = Zero THEN FALSE
  ELSE IF x = Zero THEN TRUE
  ELSE IF x.e # y.e THEN x.e < y.e
  ELSE LimbsLess(x.m, y.m, 1)

\* x >= y
FGeq(x, y) == ~FLess(x, y)

\* Math.max(x, y)
FMax(x, y) == IF FLess(x, y) THEN y ELSE x

\* the literal 0.5
Half == FDivInt(FromInt(1), 2)

RECURSIVE SubBigFrom(_, _, _, _)
\* the first i limbs of a minus those of b (equal lengths) minus borrow
SubBigFrom(a, b, i, borrow) ==
  IF i = 0 THEN <<>>
  ELSE LET v == a[i] - b[i] - borrow
       IN Append(SubBigFrom(a, b, i - 1, IF v < 0 THEN 1 ELSE 0),
                 IF v < 0 THEN v + LimbBase ELSE v)

\* a - b for a >= b
SubBig(a, b) ==
  LET bp == ZeroLimbs(Len(a) - Len(b)) \o b
  IN StripLimbs(SubBigFrom(a, bp, Len(a), 0))

RECURSIVE MulBigFrom(_, _, _)
\* a times the first i limbs of b; a limb is multiplied in two halves
MulBigFrom(a, b, i) ==
  IF i = 0 THEN <<>>
  ELSE AddBig(ShiftLeft(MulBigFrom(a, b, i - 1), LimbBits),
              AddBig(ShiftLeft(MulSmall(a, b[i] \div 256), 8),
                     MulSmall(a, b[i] % 256)))

MulBig(a, b) == MulBigFrom(a, b, Len(b))

\* x - y for x >= y
FSub(x, y) ==
  IF y = Zero THEN x
  ELSE LET e == IF x.e < y.e THEN x.e ELSE y.e
       IN RoundBig(SubBig(ShiftLeft(x.m, x.e - e), ShiftLeft(y.m, y.e - e)),
                   e, FALSE)

\* x * y
FMul(x, y) ==
  IF x = Zero \/ y = Zero THEN Zero
  ELSE RoundBig(MulBig(x.m, y.m), x.e + y.e, FALSE)

\* Math.min(x, y)
FMin(x, y) == IF FLess(y, x) THEN y ELSE x

(***************************************************************************)
(* Strings                                                                 *)
(***************************************************************************)
UpperCase == <<"A", "B", "C", "D", "E", "F", "G", "H", "I", "J", "K", "L", "M",
               "N", "O", "P", "Q", "R", "S", "T", "U", "V", "W", "X", "Y", "Z">>
LowerCase == <<"a", "b", "c", "d", "e", "f", "g", "h", "i", "j", "k", "l", "m",
               "n", "o", "p", "q", "r", "s", "t", "u", "v", "w", "x", "y", "z">>

\* the characters \s matches and trim() removes, among those modelled
WhiteSpace == {" ", "\t", "\n", "\r"}

\* String.prototype.toLowerCase
toLowerCase(s) ==
  [i \in 1..Len(s) |->
     IF \E j \in 1..Len(UpperCase) : UpperCase[j] = s[i]
     THEN LowerCase[CHOOSE j \in 1..Len(UpperCase) : UpperCase[j] = s[i]]
     ELSE s[i]]

\* String.prototype.trim
trim(s) ==
  LET black == {i \in 1..Len(s) : s[i] \notin WhiteSpace}
  IN IF black = {} THEN <<>>
     ELSE SubSeq(s, CHOOSE i \in black : \A j \in black : i <= j,
                    CHOOSE i \in black : \A j \in black : j <= i)

RECURSIVE splitFrom(_, _, _)
\* s.split(/\s+/) from position i on, cur being the token read so far:
\* every maximal run of white space ends a token, an empty one included
splitFrom(s, i, cur) ==
  IF i > Len(s) THEN <<cur>>
  ELSE IF s[i] \in WhiteSpace
  THEN LET after == {j \in (i + 1)..Len(s) : s[j] \notin WhiteSpace}
           next  == IF after = {} THEN Len(s) + 1
                    ELSE CHOOSE j \in after : \A k \in after : j <= k
       IN <<cur>> \o splitFrom(s, next, <<>>)
  ELSE splitFrom(s, i + 1, Append(cur, s[i]))

\* String.prototype.split(/\s+/)
split(s) == splitFrom(s, 1, <<>>)

\* Array.prototype.filter(Boolean) on strings: the empty string is falsy
filterBoolean(tokens) ==
  LET NonEmpty(t) == t # <<>> IN SelectSeq(tokens, NonEmpty)

\* words without its default: text.trim().split(/\s+/).filter(Boolean).length
wordsWithoutDefault(text) == Len(filterBoolean(split(trim(text))))

\* text.trim().split(/\s+/).filter(Boolean).length || 1
words(text) ==
  LET n == Len(filterBoolean(split(trim(text))))
  IN IF n = 0 THEN 1 ELSE n

\* String.prototype.slice(begin, end)
slice(s, begin, end) ==
  LET n    == Len(s)
      from == IF begin < 0 THEN (IF n + begin < 0 THEN 0 ELSE n + begin)
              ELSE (IF begin > n THEN n ELSE begin)
      to   == IF end < 0 THEN (IF n + end < 0 THEN 0 ELSE n + end)
              ELSE (IF end > n THEN n ELSE end)
  IN SubSeq(s, from + 1, to)

\* RegExp.prototype.test for a character class
test(class, s) == \E i \in 1..Len(s) : s[i] \in class

RECURSIVE matchFrom(_, _, _)
\* s.match(/[class]+/g) from position i on: the greedy matches, left to right
matchFrom(class, s, i) ==
  IF i > Len(s) THEN <<>>
  ELSE IF s[i] \in class
  THEN LET after == {j \in (i + 1)..Len(s) : s[j] \notin class}
           stop  == IF after = {} THEN Len(s) + 1
                    ELSE CHOOSE j \in after : \A k \in after : j <= k
       IN <<SubSeq(s, i, stop - 1)>> \o matchFrom(class, s, stop)
  ELSE matchFrom(class, s, i + 1)

\* String.prototype.match(/[class]+/g); null is the empty sequence
match(class, s) == matchFrom(class, s, 1)

(***************************************************************************)
(* Text analyzer                                                           *)
(***************************************************************************)
\* the default of the wpm parameter
DefaultWpm == 160

\* estimateSpeechDuration without the floor of half a second
estimateSpeechDurationNoMinimum(text, wpm) ==
  FMulInt(FDivInt(FromInt(words(text)), wpm), 60)

estimateSpeechDuration(text, wpm) ==
  LET minutes == FDivInt(FromInt(words(text)), wpm)
  IN FMax(Half, FMulInt(minutes, 60))

\* Math.floor(n * 1.5) in place of Math.round
floorOneAndHalf(n) == (3 * n) \div 2

\* Math.round(n * 1.5): n * 1.5 is exact, and Math.round takes ties upward
roundOneAndHalf(n) == (3 * n + 1) \div 2

\* estimateSyllables matching the vowels in the text as written, not lower-cased
estimateSyllablesAsWritten(text) ==
  LET matches == match({"a", "e", "i", "o", "u", "y"}, text)
      rounded == roundOneAndHalf(words(text))
  IN IF Len(matches) > 0 THEN Len(matches)
     ELSE IF rounded < 1 THEN 1 ELSE rounded

estimateSyllables(text) ==
  LET matches == match({"a", "e", "i", "o", "u", "y"}, toLowerCase(text))
      rounded == roundOneAndHalf(words(text))
  IN IF Len(matches) > 0 THEN Len(matches)
     ELSE IF rounded < 1 THEN 1 ELSE rounded

(***************************************************************************)
(* Viseme classifier                                                       *)
(***************************************************************************)
Viseme == {"open", "closed", "round", "wide", "neutral"}

\* pickVisemeForChunk with its first two rules in the other order
pickVisemeWideFirst(chunk) ==
  LET c == toLowerCase(chunk)
  IN IF test({"i", "e", "a", "E", "I"}, c) THEN "wide"
     ELSE IF test({"o", "u", "O", "A"}, c) THEN "round"
     ELSE IF test({"b", "m", "p", "f", "v", "w", "M", "B", "P", "F", "V"}, c)
          THEN "closed"
     ELSE IF test({"t", "d", "k", "g", "T", "D", "K", "G"}, c) THEN "closed"
     ELSE IF test({"s", "S", "h", "H"}, c) THEN "wide"
     ELSE "open"

\* pickVisemeForChunk testing the chunk as it is, not its lower case
pickVisemeCaseSensitive(chunk) ==
  LET c == chunk
  IN IF test({"o", "u", "O", "A"}, c) THEN "round"
     ELSE IF test({"i", "e", "a", "E", "I"}, c) THEN "wide"
     ELSE IF test({"b", "m", "p", "f", "v", "w", "M", "B", "P", "F", "V"}, c)
          THEN "closed"
     ELSE IF test({"t", "d", "k", "g", "T", "D", "K", "G"}, c) THEN "closed"
     ELSE IF test({"s", "S", "h", "H"}, c) THEN "wide"
     ELSE "open"

pickVisemeForChunk(chunk) ==
  LET c == toLowerCase(chunk)
  IN IF test({"o", "u", "O", "A"}, c) THEN "round"
     ELSE IF test({"i", "e", "a", "E", "I"}, c) THEN "wide"
     ELSE IF test({"b", "m", "p", "f", "v", "w", "M", "B", "P", "F", "V"}, c)
          THEN "closed"
     ELSE IF test({"t", "d", "k", "g", "T", "D", "K", "G"}, c) THEN "closed"
     ELSE IF test({"s", "S", "h", "H"}, c) THEN "wide"
     ELSE "open"

(***************************************************************************)
(* Viseme scheduler                                                        *)
(***************************************************************************)
\* Math.ceil(a / b) for naturals a and b > 0
ceilDiv(a, b) == (a + b - 1) \div b

\* the chunk size with Math.floor in place of Math.ceil
chunkSizeFloor(text, syllables) ==
  LET c == Len(text) \div syllables IN IF c < 1 THEN 1 ELSE c

\* Math.max(1, Math.ceil(text.length / syllables))
chunkSizeOf(text, syllables) ==
  LET c == ceilDiv(Len(text), syllables) IN IF c < 1 THEN 1 ELSE c

\* the chunk without the fallback to the last character
chunkAtWithoutFallback(text, start, chunkSize) ==
  slice(text, start, start + chunkSize)

\* text.slice(start, start + chunkSize) || text.slice(-1)
chunkAt(text, start, chunkSize) ==
  LET chunk == slice(text, start, start + chunkSize)
  IN IF chunk # <<>> THEN chunk ELSE slice(text, -1, Len(text))

RECURSIVE generateLoopWhileText(_, _, _, _, _, _)
\* the for loop ending when the text is used up: i * chunkSize < text.length
generateLoopWhileText(text, syllables, chunkSize, per, i, t) ==
  IF i >= syllables \/ i * chunkSize >= Len(text) THEN <<>>
  ELSE LET chunk == chunkAt(text, i * chunkSize, chunkSize)
           vis   == pickVisemeForChunk(chunk)
       IN <<[time |-> t, viseme |-> vis]>>
          \o generateLoopWhileText(text, syllables, chunkSize, per, i + 1,
                                   FAdd(t, per))

RECURSIVE generateLoop(_, _, _, _, _, _)
\* the for loop of generateVisemeSequence from iteration i on, t being the
\* running time
generateLoop(text, syllables, chunkSize, per, i, t) ==
  IF i >= syllables THEN <<>>
  ELSE LET chunk == chunkAt(text, i * chunkSize, chunkSize)
           vis   == pickVisemeForChunk(chunk)
       IN <<[time |-> t, viseme |-> vis]>>
          \o generateLoop(text, syllables, chunkSize, per, i + 1, FAdd(t, per))

\* generateVisemeSequence with t advanced before the event is pushed
generateVisemeSequenceLate(text, totalDuration) ==
  LET syllables == estimateSyllables(text)
      chunkSize == chunkSizeOf(text, syllables)
      per       == FDivInt(totalDuration, syllables)
  IN generateLoop(text, syllables, chunkSize, per, 0, per)

generateVisemeSequence(text, totalDuration) ==
  LET syllables == estimateSyllables(text)
      chunkSize == chunkSizeOf(text, syllables)
  IN CHOOSE seq \in {generateLoop(text, syllables, chunkSize, per, 0, Zero)
                     : per \in {FDivInt(totalDuration, syllables)}} : TRUE

(***************************************************************************)
(* State                                                                   *)
(***************************************************************************)
VARIABLES
  text,                  \* the text the analyzer/scheduler functions are applied to
  call,                  \* the function applied to it, its argument and result
  clock,                 \* performance.now(), in milliseconds
  visemeRAFRef,          \* visemeRAFRef.current: a frame handle, or NoHandle
  rafCallbacks,          \* the browser's list of animation frame callbacks
  nextHandle,            \* the handle the next requestAnimationFrame returns
  playbacks,             \* the closures of the startVisemePlayback calls
  morphTargetTargetsRef, \* morphTargetTargetsRef.current: channel -> weight
  targetJawOpenRef,      \* targetJawOpenRef.current
  morphMeshesRef,        \* morphMeshesRef.current: the meshes with morph targets
  jawBoneRef,            \* jawBoneRef.current: the jaw bone, or NULL
  morphTargetInfluences, \* the morph influences of the meshes: channel -> weight
  currentJawOpenRef,     \* currentJawOpenRef.current
  messages,              \* the chat messages (React state)
  input,                 \* the text of the input field (React state)
  loading,               \* whether the controls are disabled (React state)
  isListening,           \* whether voice input is shown as on (React state)
  recognition,           \* the speech recognition engine: idle, active,
                         \* stopping (stop() called) or ending (result given)
  sends,                 \* the calls of send so far, with their local variables
  utterances,            \* the utterances given to speechSynthesis.speak
  loads,                 \* number of models loaded so far
  mouthSource,           \* history: the playback whose event applyViseme last
                         \* applied; 0 after a reset to neutral
  applied,               \* history: the visemes applyViseme was called with, in
                         \* order, by the operation that led to this state
  lastOp,                \* history: the operation that led to this state
  pre                    \* history: the driver as it was before that operation

vars == <<text, call, clock, visemeRAFRef, rafCallbacks, nextHandle, playbacks,
          morphTargetTargetsRef, targetJawOpenRef, morphMeshesRef, jawBoneRef,
          morphTargetInfluences, currentJawOpenRef,
          messages, input, loading, isListening, recognition, sends,
          utterances,
          loads, mouthSource, applied, lastOp, pre>>

chatVars == <<messages, input, loading, isListening, recognition, sends,
              utterances>>

fnVars == <<text, call>>

driverVars == <<clock, visemeRAFRef, rafCallbacks, nextHandle, playbacks,
                morphTargetTargetsRef, targetJawOpenRef, morphMeshesRef,
                jawBoneRef, morphTargetInfluences, currentJawOpenRef,
                loads, mouthSource, applied, lastOp, pre>>

\* null, for a reference to an object
NULL == "null"
\* null, for visemeRAFRef.current: requestAnimationFrame returns handles above 0,
\* and the code tests the reference for truthiness only
NoHandle == 0

(***************************************************************************)
(* Playback driver.  The functions of the driver map the driver's state,   *)
(* gathered in one record, to its state after the call.                    *)
(***************************************************************************)
Driver ==
  [clock                 |-> clock,
   visemeRAFRef          |-> visemeRAFRef,
   rafCallbacks          |-> rafCallbacks,
   nextHandle            |-> nextHandle,
   playbacks             |-> playbacks,
   morphTargetTargetsRef |-> morphTargetTargetsRef,
   targetJawOpenRef      |-> targetJawOpenRef,
   morphMeshesRef        |-> morphMeshesRef,
   jawBoneRef            |-> jawBoneRef,
   morphTargetInfluences |-> morphTargetInfluences,
   currentJawOpenRef     |-> currentJawOpenRef,
   mouthSource           |-> mouthSource,
   applied               |-> <<>>]

mouthOpenKeys == {"MouthOpen", "mouthOpen", "jawOpen", "JawOpen", "open",
                  "Mouth_Open"}
smileKeys == {"Smile", "smile", "mouthSmile", "smile_big"}

\* the literal 0.n
Tenths(n) == FDivInt(FromInt(n), 10)
Literal04 == Tenths(4)
Literal06 == Tenths(6)
Literal08 == Tenths(8)
Literal09 == Tenths(9)

\* the element of a set of one element.  In {F(x) : x \in {e}} the
\* expression e is evaluated once, whatever the number of uses of x in F.
TheOne(S) == CHOOSE r \in S : TRUE

\* mouthValue with the values of wide and open exchanged
mouthValueExchanged(viseme) ==
  IF viseme = "closed" THEN Zero
  ELSE IF viseme = "wide" THEN Literal09
  ELSE IF viseme = "open" THEN Literal06
  ELSE IF viseme = "round" THEN Literal08
  ELSE Zero

mouthValue(viseme) ==
  IF viseme = "closed" THEN Zero
  ELSE IF viseme = "wide" THEN Literal06
  ELSE IF viseme = "open" THEN Literal09
  ELSE IF viseme = "round" THEN Literal08
  ELSE Zero

smileValue(viseme) == IF viseme = "wide" THEN Literal04 ELSE Zero

applyViseme(d, viseme) ==
  TheOne({
    [s EXCEPT
       !.morphTargetTargetsRef =
          [k \in (DOMAIN @) \cup mouthOpenKeys \cup smileKeys |->
             IF k \in mouthOpenKeys THEN mouthValue(viseme)
             ELSE IF k \in smileKeys THEN smileValue(viseme)
             ELSE @[k]],
       !.targetJawOpenRef =
          IF s.morphMeshesRef = <<>> /\ s.jawBoneRef # NULL
          THEN mouthValue(viseme) ELSE @,
       !.mouthSource = 0,
       !.applied = Append(@, viseme)]
    : s \in {d}})

\* a cancelAnimationFrame that removes nothing from the list
cancelNothing(d, handle) == d

\* window.cancelAnimationFrame: a handle that is not in the list is ignored
cancelAnimationFrame(d, handle) ==
  [d EXCEPT !.rafCallbacks = {cb \in @ : cb.handle # handle}]

\* window.requestAnimationFrame: the handle returned is d.nextHandle
requestAnimationFrame(d, callback) ==
  TheOne({
    [s EXCEPT
       !.rafCallbacks = @ \cup {[handle |-> s.nextHandle,
                                 kind   |-> callback.kind,
                                 play   |-> callback.play]},
       !.nextHandle = @ + 1]
    : s \in {d}})

\* stopVisemePlayback forgetting the pending callback without cancelling it
stopWithoutCancel(d) ==
  applyViseme([d EXCEPT !.visemeRAFRef = NoHandle], "neutral")

\* stopVisemePlayback without the reset of the mouth
stopWithoutNeutral(d) ==
  TheOne({
    IF s.visemeRAFRef # NoHandle
    THEN [cancelAnimationFrame(s, s.visemeRAFRef) EXCEPT !.visemeRAFRef = NoHandle]
    ELSE s
    : s \in {d}})

\* stopVisemePlayback leaving the reset of the mouth to the next frame
stopNeutralNextFrame(d) ==
  TheOne({
    [requestAnimationFrame(s, [kind |-> "neutral", play |-> Len(s.playbacks)])
       EXCEPT !.visemeRAFRef = s.nextHandle]
    : s \in {stopWithoutNeutral(d)}})

stopVisemePlayback(d) ==
  TheOne({
    applyViseme(IF s.visemeRAFRef # NoHandle
                THEN [cancelAnimationFrame(s, s.visemeRAFRef)
                        EXCEPT !.visemeRAFRef = NoHandle]
                ELSE s,
                "neutral")
    : s \in {d}})

\* the state after let idx = 0 and start = performance.now(): the closure of
\* this call is the last of playbacks
startClosure(d, seq) ==
  [d EXCEPT !.playbacks = Append(@, [seq |-> seq, start |-> d.clock, idx |-> 0])]

startVisemePlayback(d, seq) ==
  TheOne({
    [requestAnimationFrame(started,
                           [kind |-> "step", play |-> Len(started.playbacks)])
       EXCEPT !.visemeRAFRef = started.nextHandle]
    : started \in {startClosure(stopped, seq) : stopped \in {stopVisemePlayback(d)}}})

RECURSIVE stepLoop(_, _, _)
\* the while loop of step for playback play
stepLoop(d, play, elapsed) ==
  TheOne({
    IF s.playbacks[play].idx < Len(s.playbacks[play].seq)
       /\ FGeq(elapsed, s.playbacks[play].seq[s.playbacks[play].idx + 1].time)
    THEN stepLoop([applyViseme(s, s.playbacks[play].seq[s.playbacks[play].idx + 1].viseme)
                     EXCEPT !.playbacks[play].idx = @ + 1,
                            !.mouthSource = play],
                  play, elapsed)
    ELSE s
    : s \in {d}})

\* (performance.now() - start) / 1000
elapsedOf(d, play) == FDivInt(FromInt(d.clock - d.playbacks[play].start), 1000)

\* step requesting itself again whether or not events are left
stepWithoutEnd(d, play) ==
  TheOne({
    [requestAnimationFrame(looped, [kind |-> "step", play |-> play])
       EXCEPT !.visemeRAFRef = looped.nextHandle]
    : looped \in {stepLoop(s, play, e) : s \in {d}, e \in {elapsedOf(d, play)}}})

\* step applying at most one event in a tick: if in place of while
stepOneEvent(d, play) ==
  TheOne({
    [requestAnimationFrame(
       looped,
       [kind |-> IF looped.playbacks[play].idx < Len(looped.playbacks[play].seq)
                 THEN "step" ELSE "neutral",
        play |-> play])
       EXCEPT !.visemeRAFRef = looped.nextHandle]
    : looped \in
        {IF s.playbacks[play].idx < Len(s.playbacks[play].seq)
            /\ FGeq(e, s.playbacks[play].seq[s.playbacks[play].idx + 1].time)
         THEN [applyViseme(s, s.playbacks[play].seq[s.playbacks[play].idx + 1].viseme)
                 EXCEPT !.playbacks[play].idx = @ + 1,
                        !.mouthSource = play]
         ELSE s
         : s \in {d}, e \in {elapsedOf(d, play)}}})

\* step requesting nothing once the last event is applied
stepWithoutReset(d, play) ==
  TheOne({
    IF looped.playbacks[play].idx < Len(looped.playbacks[play].seq)
    THEN [requestAnimationFrame(looped, [kind |-> "step", play |-> play])
            EXCEPT !.visemeRAFRef = looped.nextHandle]
    ELSE looped
    : looped \in {stepLoop(s, play, e) : s \in {d}, e \in {elapsedOf(d, play)}}})

\* step that does not request itself again while events are left
stepWithoutRepeat(d, play) ==
  TheOne({
    IF looped.playbacks[play].idx < Len(looped.playbacks[play].seq)
    THEN looped
    ELSE [requestAnimationFrame(looped, [kind |-> "neutral", play |-> play])
            EXCEPT !.visemeRAFRef = looped.nextHandle]
    : looped \in {stepLoop(s, play, e) : s \in {d}, e \in {elapsedOf(d, play)}}})

\* the callback step of playback play
step(d, play) ==
  TheOne({
    [requestAnimationFrame(
       looped,
       [kind |-> IF looped.playbacks[play].idx < Len(looped.playbacks[play].seq)
                 THEN "step" ELSE "neutral",
        play |-> play])
       EXCEPT !.visemeRAFRef = looped.nextHandle]
    : looped \in {stepLoop(s, play, e) : s \in {d}, e \in {elapsedOf(d, play)}}})

\* one animation frame callback
runCallback(d, cb) ==
  IF cb.kind = "step" THEN step(d, cb.play) ELSE applyViseme(d, "neutral")

RECURSIVE runFrame(_, _)
\* one animation frame: the callbacks that were in the list when the frame
\* began are run in the order they were requested, unless cancelled meanwhile
runFrame(d, batch) ==
  IF batch = {} THEN d
  ELSE TheOne({
         IF cb \in s.rafCallbacks
         THEN runFrame(runCallback([s EXCEPT !.rafCallbacks = @ \ {cb}], cb),
                       batch \ {cb})
         ELSE runFrame(s, batch \ {cb})
         : s \in {d},
           cb \in {CHOOSE c \in batch : \A o \in batch : c.handle <= o.handle}})

\* the channels of the morph target dictionaries of a list of meshes
morphTargetDictionary(meshes) ==
  IF meshes = <<>> THEN {} ELSE {"jawOpen", "mouthSmile"}

\* loader.load onLoad: the morph meshes are collected anew, their influences
\* as the model file gives them (at rest); the first jaw bone ever found is
\* kept
onLoad(d, meshes, jaw) ==
  [d EXCEPT !.morphMeshesRef = meshes,
            !.morphTargetInfluences =
               [k \in morphTargetDictionary(meshes) |-> Zero],
            !.jawBoneRef = IF jaw # NULL /\ @ = NULL THEN jaw ELSE @]

\* the expression channels utterance.onend clears that the model names
expressionKeys == {"Smile", "smile", "mouthSmile", "BrowsUp", "browsUp"}

\* utterance.onend after stopVisemePlayback: the expression morphs are cleared
clearExpression(d) ==
  [d EXCEPT !.morphTargetInfluences =
              [k \in DOMAIN @ |-> IF k \in expressionKeys THEN Zero ELSE @[k]]]

\* cur + (tgt - cur) * k for 0 <= k <= 1
approach(cur, tgt, k) ==
  IF FLess(cur, tgt) THEN FAdd(cur, FMul(FSub(tgt, cur), k))
  ELSE FSub(cur, FMul(FSub(cur, tgt), k))

\* the factor with dt taken in milliseconds
factorOfMilliseconds(ms, rate) == FMin(FromInt(1), FMulInt(FromInt(ms), rate))

\* Math.min(1, dt * rate), dt being ms milliseconds in seconds
factor(ms, rate) == FMin(FromInt(1), FMulInt(FDivInt(FromInt(ms), 1000), rate))

\* the smoothing of animate, ms milliseconds after its previous run
animate(d, ms) ==
  TheOne({
    [s EXCEPT
       !.morphTargetInfluences =
          [name \in DOMAIN @ |->
             IF name \in DOMAIN s.morphTargetTargetsRef
             THEN approach(@[name], s.morphTargetTargetsRef[name], k.morph)
             ELSE @[name]],
       !.currentJawOpenRef =
          IF s.jawBoneRef # NULL
          THEN approach(@, s.targetJawOpenRef, k.jaw) ELSE @]
    : s \in {d},
      k \in {[morph |-> factor(ms, 10), jaw |-> factor(ms, 8)]}})

(***************************************************************************)
(* The /api/chat route (src/app/api/chat/route.ts).  A JavaScript value is *)
(* a record with its type: undefined, null, a string (a sequence of        *)
(* characters) or an object (a function from field names to values).       *)
(***************************************************************************)
Undefined == [type |-> "undefined"]
JsonNull == [type |-> "null"]
Str(s) == [type |-> "string", value |-> s]
Obj(fields) == [type |-> "object", fields |-> fields]

\* v == null || v === undefined
Nullish(v) == v.type \in {"undefined", "null"}

\* the truth value of v in a condition
Truthy(v) == IF v.type = "string" THEN v.value # <<>> ELSE ~Nullish(v)

\* v?.f
optionalField(v, f) ==
  IF Nullish(v) THEN Undefined
  ELSE IF v.type = "object" /\ f \in DOMAIN v.fields THEN v.fields[f]
  ELSE Undefined

\* a ?? b
coalesce(a, b) == IF Nullish(a) THEN b ELSE a

\* NextResponse.json(json, {status})
jsonResponse(status, json) == [status |-> status, json |-> json]

InternalServerError ==
  jsonResponse(500, Obj([f \in {"error"} |->
                           Str(<<"Internal Server Error">>)]))

PromptRequired ==
  jsonResponse(400, Obj([f \in {"error"} |-> Str(<<"Prompt is required">>)]))

\* POST taking the first of the four fields that is present, empty or not,
\* written with || in place of ??
promptOfFirstTruthy(body) ==
  LET fs == <<"prompt", "message", "input", "text">>
      ok == {i \in 1..4 : Truthy(optionalField(body, fs[i]))}
  IN IF ok = {} THEN Undefined
     ELSE optionalField(body, fs[CHOOSE i \in ok : \A j \in ok : i <= j])

\* body?.prompt ?? body?.message ?? body?.input ?? body?.text
promptOf(body) ==
  coalesce(optionalField(body, "prompt"),
    coalesce(optionalField(body, "message"),
      coalesce(optionalField(body, "input"), optionalField(body, "text"))))

\* POST(req): req is the parsed body, or unparsable when req.json() throws;
\* model is what ai.models.generateContent does when called: it throws, or
\* returns a response whose text is model.text
POST(req, model) ==
  IF req.type = "unparsable"
  THEN [response |-> InternalServerError, modelCalled |-> FALSE]
  ELSE IF ~Truthy(promptOf(req))
  THEN [response |-> PromptRequired, modelCalled |-> FALSE]
  ELSE IF model.type = "throws"
  THEN [response |-> InternalServerError, modelCalled |-> TRUE]
  ELSE [response |-> jsonResponse(200, Obj([f \in {"text"} |-> model.text])),
        modelCalled |-> TRUE]

(***************************************************************************)
(* The chat client (src/app/page.tsx): speakText, send and the handlers    *)
(* that call it.  The functions map the client's state, gathered in one    *)
(* record, to its state after the call.  send is an async function: a call *)
(* of it runs to its first await, and goes on when the awaited fetch or    *)
(* sleep settles.                                                          *)
(***************************************************************************)
Client ==
  [messages   |-> messages,
   input      |-> input,
   loading    |-> loading,
   sends      |-> sends,
   utterances |-> utterances]

maxRetries == 3
delays == <<1000, 2000, 4000>>
\* delays[attempt] ?? 2000, attempt counted from 0
delayOf(attempt) == IF attempt + 1 \in DOMAIN delays THEN delays[attempt + 1] ELSE 2000

\* the texts send shows or speaks
NoTextInResponse ==
  <<"E", "r", "r", "o", "r", ":", " ", "N", "o", " ", "t", "e", "x", "t",
    " ", "i", "n", " ", "r", "e", "s", "p", "o", "n", "s", "e", ".">>
TroubleSentence ==
  <<"S", "o", "r", "r", "y", ",", " ", "I", "'", "m", " ", "h", "a", "v",
    "i", "n", "g", " ", "t", "r", "o", "u", "b", "l", "e", " ", "r", "i",
    "g", "h", "t", " ", "n", "o", "w", ".", " ", "P", "l", "e", "a", "s",
    "e", " ", "t", "r", "y", " ", "a", "g", "a", "i", "n", " ", "i", "n",
    " ", "a", " ", "m", "o", "m", "e", "n", "t", ".">>
UnreachableSentence ==
  <<"S", "o", "r", "r", "y", ",", " ", "I", " ", "c", "o", "u", "l", "d",
    "n", "'", "t", " ", "r", "e", "a", "c", "h", " ", "t", "h", "e", " ",
    "s", "e", "r", "v", "e", "r", ".", " ", "P", "l", "e", "a", "s", "e",
    " ", "c", "h", "e", "c", "k", " ", "y", "o", "u", "r", " ", "c", "o",
    "n", "n", "e", "c", "t", "i", "o", "n", " ", "a", "n", "d", " ", "t",
    "r", "y", " ", "a", "g", "a", "i", "n", ".">>
Plain(s) == [kind |-> "plain", value |-> s]
Retrying(cause, n) ==
  [kind |-> "retrying", cause |-> cause, attempt |-> n, of |-> maxRetries]
ServerErrorNotice(msg) == [kind |-> "Server error", detail |-> msg]
ErrorContactingServer == [kind |-> "Error contacting server."]
UnexpectedError == [kind |-> "Unexpected error."]

\* String.prototype.includes
includes(s, part) ==
  \E i \in 1..(Len(s) - Len(part) + 1) : SubSeq(s, i, i + Len(part) - 1) = part

\* the expression speakText reads from the punctuation
expressionOf(t) ==
  IF includes(t, <<"!">>) THEN "happy"
  ELSE IF includes(t, <<"?">>) THEN "surprised"
  ELSE IF includes(t, <<".", ".", ".">>) THEN "thinking"
  ELSE "neutral"

\* speakText that schedules the empty text too
\* the schedule speakText makes of a text: generateVisemeSequence(text,
\* estimateSpeechDuration(text, 160))
scheduleOf(t) ==
  generateVisemeSequence(t, estimateSpeechDuration(t, DefaultWpm))

\* the schedules of the sentences the client itself speaks, made once
OwnSentences == {NoTextInResponse, TroubleSentence, UnreachableSentence}
OwnSchedules == [t \in OwnSentences |-> scheduleOf(t)]

\* speakText(text): nothing for the empty text; else the schedule is made
\* and the utterance is given to speechSynthesis.speak.  The schedule is a
\* function of the text alone, so the utterance keeps the text and its
\* onstart handler takes the schedule of it.
speakText(c, t) ==
  IF t = <<>> THEN c
  ELSE [c EXCEPT !.utterances =
          Append(@, [text       |-> t,
                     expression |-> expressionOf(t),
                     state      |-> "queued"])]

\* the schedule captured by the onstart handler of an utterance
seqOf(t) == IF t \in OwnSentences THEN OwnSchedules[t] ELSE scheduleOf(t)

\* dict[a] ?? dict[b] ?? ...: the first of the keys that the dictionary has,
\* or none
firstKey(keys, dict) ==
  IF \A i \in 1..Len(keys) : keys[i] \notin dict THEN "none"
  ELSE keys[CHOOSE i \in 1..Len(keys) :
              keys[i] \in dict /\ \A j \in 1..(i - 1) : keys[j] \notin dict]

\* utterance.onstart before startVisemePlayback: the expression morph is set
\* on the meshes of the avatar, if a model is loaded
applyExpression(d, expression) ==
  [d EXCEPT !.morphTargetInfluences =
     [k \in DOMAIN @ |->
        IF expression = "happy"
           /\ k = firstKey(<<"Smile", "smile", "mouthSmile">>, DOMAIN @)
        THEN FromInt(1)
        ELSE IF expression = "thinking"
                /\ k = firstKey(<<"BrowsUp", "browsUp">>, DOMAIN @)
        THEN Literal06
        ELSE @[k]]]

\* setMessages(prev => prev.map(m => m.id === id ? {...m, text, isStreaming} : m))
setMessage(c, id, txt, streaming) ==
  [c EXCEPT !.messages =
     [k \in DOMAIN @ |->
        IF @[k].id = id
        THEN [@[k] EXCEPT !.text = txt, !.isStreaming = streaming]
        ELSE @[k]]]

\* the body of the request send posts; the fields the route does not read
\* are left out
requestOf(message) == Obj([f \in {"prompt"} |-> Str(message)])

\* res.ok
ok(res) == res.status >= 200 /\ res.status <= 299

\* parseServerError(res): the error or message of a JSON body, else the body
parseServerError(res) ==
  IF res.json.type = "object" /\ Truthy(optionalField(res.json, "error"))
  THEN optionalField(res.json, "error").value
  ELSE IF res.json.type = "object" /\ Truthy(optionalField(res.json, "message"))
  THEN optionalField(res.json, "message").value
  ELSE IF res.json.type = "unparsable" THEN res.json.text
  ELSE <<"{}">>

\* what is kept of the way a fetch settled: whether the try block threw (in
\* fetch or in res.json()) and the status of the response, 0 without one
settledAs(outcome) ==
  IF outcome.type = "throws" THEN [threw |-> TRUE, status |-> 0]
  ELSE [threw  |-> ok(outcome.response)
                   /\ outcome.response.json.type = "unparsable",
        status |-> outcome.response.status]

\* the call of fetch by send number i
fetch(c, i) ==
  [c EXCEPT !.sends[i].pc = "fetch", !.sends[i].fetches = @ + 1]

\* speakText called by send number i
speak(c, i, t) ==
  [speakText(c, t) EXCEPT !.sends[i].spoken = Append(@, t)]

\* setLoading(false); return
finish(c, i) == [c EXCEPT !.loading = FALSE, !.sends[i].pc = "done"]

\* the notice of a retry, then await sleep(delays[attempt])
retry(c, i, cause) ==
  TheOne({
    [setMessage(c, snd.charMsgId, Retrying(cause, snd.attempt + 1), TRUE)
       EXCEPT !.sends[i].pc = "sleep",
              !.sends[i].waits = Append(@, delayOf(snd.attempt))]
    : snd \in {c.sends[i]}})

\* the catch block of the loop of send number i
catch(c, i) ==
  IF c.sends[i].attempt < maxRetries THEN retry(c, i, "Network error")
  ELSE finish(speak(setMessage(c, c.sends[i].charMsgId,
                               ErrorContactingServer, FALSE),
                    i, UnreachableSentence), i)

\* data?.text, the empty text when there is none
generatedTextAsReplied(data) ==
  IF Truthy(optionalField(data, "text")) THEN optionalField(data, "text").value
  ELSE <<>>

\* data?.text || "Error: No text in response."
generatedTextOf(data) ==
  IF Truthy(optionalField(data, "text")) THEN optionalField(data, "text").value
  ELSE NoTextInResponse

\* send number i after its fetch settled with every status retried
afterFetchRetryingAll(c, i, outcome) ==
  IF outcome.type = "throws" THEN catch(c, i)
  ELSE IF ok(outcome.response)
  THEN IF outcome.response.json.type = "unparsable" THEN catch(c, i)
       ELSE finish(speak(setMessage(c, c.sends[i].charMsgId,
                                    Plain(generatedTextOf(outcome.response.json)),
                                    FALSE),
                         i, generatedTextOf(outcome.response.json)), i)
  ELSE IF c.sends[i].attempt < maxRetries
  THEN retry(c, i, "Server busy")
  ELSE finish(speak(setMessage(c, c.sends[i].charMsgId,
                               ServerErrorNotice(parseServerError(outcome.response)),
                               FALSE),
                    i, TroubleSentence), i)

\* send number i after its fetch settled and speaking on success only
afterFetchSilentOnError(c, i, outcome) ==
  IF outcome.type = "throws"
  THEN IF c.sends[i].attempt < maxRetries THEN retry(c, i, "Network error")
       ELSE finish(setMessage(c, c.sends[i].charMsgId,
                              ErrorContactingServer, FALSE), i)
  ELSE IF ok(outcome.response)
  THEN IF outcome.response.json.type = "unparsable" THEN catch(c, i)
       ELSE finish(speak(setMessage(c, c.sends[i].charMsgId,
                                    Plain(generatedTextOf(outcome.response.json)),
                                    FALSE),
                         i, generatedTextOf(outcome.response.json)), i)
  ELSE IF outcome.response.status = 503 /\ c.sends[i].attempt < maxRetries
  THEN retry(c, i, "Server busy")
  ELSE finish(setMessage(c, c.sends[i].charMsgId,
                         ServerErrorNotice(parseServerError(outcome.response)),
                         FALSE), i)

\* send number i after its fetch settled: the rest of the try block, or the
\* catch block when fetch or res.json() threw
afterFetch(c, i, outcome) ==
  IF outcome.type = "throws" THEN catch(c, i)
  ELSE IF ok(outcome.response)
  THEN IF outcome.response.json.type = "unparsable" THEN catch(c, i)
       ELSE finish(speak(setMessage(c, c.sends[i].charMsgId,
                                    Plain(generatedTextOf(outcome.response.json)),
                                    FALSE),
                         i, generatedTextOf(outcome.response.json)), i)
  ELSE IF outcome.response.status = 503 /\ c.sends[i].attempt < maxRetries
  THEN retry(c, i, "Server busy")
  ELSE finish(speak(setMessage(c, c.sends[i].charMsgId,
                               ServerErrorNotice(parseServerError(outcome.response)),
                               FALSE),
                    i, TroubleSentence), i)

\* send number i after its sleep with the loop left when attempt reaches
\* maxRetries
afterSleepStrict(c, i) ==
  TheOne({
    IF n.sends[i].attempt < maxRetries THEN fetch(n, i)
    ELSE [setMessage(n, n.sends[i].charMsgId, UnexpectedError, FALSE)
            EXCEPT !.loading = FALSE, !.sends[i].pc = "unexpected"]
    : n \in {[c EXCEPT !.sends[i].attempt = @ + 1]}})

\* send number i after its sleep: attempt = nextAttempt; continue; the loop
\* test; the next fetch, or the code after the loop
afterSleep(c, i) ==
  TheOne({
    IF n.sends[i].attempt <= maxRetries THEN fetch(n, i)
    ELSE [setMessage(n, n.sends[i].charMsgId, UnexpectedError, FALSE)
            EXCEPT !.loading = FALSE, !.sends[i].pc = "unexpected"]
    : n \in {[c EXCEPT !.sends[i].attempt = @ + 1]}})

\* send(overrideInput) up to its first await; message ids, made from
\* Date.now() in the code, are numbered; trigger, fetches, last, waits and
\* spoken are history
send(c, overrideInput, trigger) ==
  IF ~Truthy(coalesce(overrideInput, Str(c.input))) THEN c
  ELSE [c EXCEPT
          !.messages = @ \o
             <<[id |-> 2 * Len(c.sends) + 1, role |-> "user",
                text |-> Plain(coalesce(overrideInput, Str(c.input)).value),
                isStreaming |-> FALSE],
               [id |-> 2 * Len(c.sends) + 2, role |-> "character",
                text |-> Plain(<<>>), isStreaming |-> TRUE]>>,
          !.input = <<>>,
          !.loading = TRUE,
          !.sends = Append(@,
             [message   |-> coalesce(overrideInput, Str(c.input)).value,
              trigger   |-> trigger,
              charMsgId |-> 2 * Len(c.sends) + 2,
              attempt   |-> 0,
              pc        |-> "fetch",
              fetches   |-> 1,
              last      |-> [threw |-> FALSE, status |-> 0],
              waits     |-> <<>>,
              spoken    |-> <<>>])]

(***************************************************************************)
(* Inputs                                                                  *)
(***************************************************************************)
Alphabet == {"o", "a", "b", "t", "s", "x", " ", "A", "ß"}

Hello == <<"H", "e", "l", "l", "o">>

\* a unit repeated k times
Rep(u, k) == [i \in 1..(k * Len(u)) |-> u[((i - 1) % Len(u)) + 1]]

RepUnits == {<<"a", "b">>, <<"b", " ">>, <<"A", " ">>}

Texts ==
  UNION {[1..n -> Alphabet] : n \in 0..MaxLen}
  \cup {Rep(u, k) : u \in RepUnits, k \in 1..MaxRep}
  \cup {Hello}

Wpms == {60, DefaultWpm}

Durations(t) == {Half, FromInt(1), estimateSpeechDuration(t, DefaultWpm)}

\* speakText makes no schedule for the empty text; the schedules of these
\* texts are open, closed and wide, round
DriverTexts == {<<"x", "b">>, Hello}

\* milliseconds between two animation frames
FrameSteps == {125, 250}

\* milliseconds between two runs of animate: below and above the tenth of a
\* second from which Math.min(1, dt * 10) is 1
SmoothSteps == {50, 125}

\* the values a field of a request body takes
FieldValues == {JsonNull, Str(<<>>), Str(Hello)}

PromptFields == {"prompt", "message", "input", "text"}

\* request bodies: unparsable, null, or an object with some of the fields
Bodies ==
  {[type |-> "unparsable"], JsonNull}
  \cup {Obj(f) : f \in UNION {[fs -> FieldValues] : fs \in SUBSET PromptFields}}

\* what the model call does
ModelResults ==
  {[type |-> "throws"], [type |-> "text", text |-> Str(Hello)],
   [type |-> "text", text |-> Undefined]}

\* what the user types, and what speech recognition hears
TypedTexts == {Hello}
SpokenTexts == {<<>>, <<"x", "b">>}

\* what a fetch of send may settle with: the network fails, the hosting
\* platform answers 503 in place of the route, a proxy answers 200 with a
\* body that is not JSON, or the route answers
FetchOutcomes(req) ==
  {[type |-> "throws"],
   [type |-> "response",
    response |-> [status |-> 503,
                  json   |-> [type |-> "unparsable",
                              text |-> <<"Service Unavailable">>]]],
   [type |-> "response",
    response |-> [status |-> 200,
                  json   |-> [type |-> "unparsable", text |-> <<"<html>">>]]]}
  \cup {[type |-> "response", response |-> POST(req, m).response] :
          m \in ModelResults}

MeshLists == {<<>>, <<"Head">>}
JawBones == {NULL, "Jaw"}

(***************************************************************************)
(* Specification of the driver                                             *)
(***************************************************************************)
NoCall == [fn |-> "none"]

DriverInit ==
  /\ clock = 0
  /\ visemeRAFRef = NoHandle
  /\ rafCallbacks = {}
  /\ nextHandle = 1
  /\ playbacks = <<>>
  /\ morphTargetTargetsRef = <<>>
  /\ targetJawOpenRef = Zero
  /\ morphMeshesRef = <<>>
  /\ jawBoneRef = NULL
  /\ morphTargetInfluences = <<>>
  /\ currentJawOpenRef = Zero
  /\ messages = <<>>
  /\ input = <<>>
  /\ loading = FALSE
  /\ isListening = FALSE
  /\ recognition = "idle"
  /\ sends = <<>>
  /\ utterances = <<>>
  /\ loads = 0
  /\ mouthSource = 0
  /\ applied = <<>>
  /\ lastOp = "init"
  /\ pre = [lastOp                |-> "init",
            pending               |-> {},
            morphTargetTargetsRef |-> <<>>]

Init ==
  /\ text = <<>>
  /\ call = NoCall
  /\ DriverInit

\* what the history variable pre keeps of the current state
Snapshot ==
  [lastOp                |-> lastOp,
   pending               |-> {cb.kind : cb \in rafCallbacks},
   morphTargetTargetsRef |-> morphTargetTargetsRef]

\* the driver's variables become d, reached by operation op
Commit(d, op) ==
  /\ clock' = d.clock
  /\ visemeRAFRef' = d.visemeRAFRef
  /\ rafCallbacks' = d.rafCallbacks
  /\ nextHandle' = d.nextHandle
  /\ playbacks' = d.playbacks
  /\ morphTargetTargetsRef' = d.morphTargetTargetsRef
  /\ targetJawOpenRef' = d.targetJawOpenRef
  /\ morphMeshesRef' = d.morphMeshesRef
  /\ jawBoneRef' = d.jawBoneRef
  /\ morphTargetInfluences' = d.morphTargetInfluences
  /\ currentJawOpenRef' = d.currentJawOpenRef
  /\ mouthSource' = d.mouthSource
  /\ applied' = d.applied
  /\ lastOp' = op
  /\ pre' = Snapshot

\* utterance.onstart of a text without punctuation (no expression morph):
\* startVisemePlayback(seq) with the schedule speakText made
StartVisemePlayback ==
  /\ Len(playbacks) < MaxStarts
  /\ \E t \in DriverTexts :
       \E seq \in {generateVisemeSequence(t, estimateSpeechDuration(t, DefaultWpm))} :
         \E d \in {startVisemePlayback(Driver, seq)} : Commit(d, "start")
  /\ UNCHANGED <<text, call, loads, chatVars>>

\* utterance.onend: stopVisemePlayback(), then the expression morphs cleared
StopVisemePlayback ==
  /\ \E d \in {clearExpression(stopVisemePlayback(Driver))} : Commit(d, "stop")
  /\ UNCHANGED <<text, call, loads, chatVars>>

\* the browser runs an animation frame dt milliseconds later
Frame ==
  /\ \E dt \in FrameSteps :
       /\ clock + dt <= MaxClock
       /\ \E d \in {runFrame([Driver EXCEPT !.clock = @ + dt], rafCallbacks)} :
            Commit(d, "frame")
  /\ UNCHANGED <<text, call, loads, chatVars>>

\* a model finishes loading
LoadModel ==
  /\ loads < MaxLoads
  /\ loads' = loads + 1
  /\ \E meshes \in MeshLists, jaw \in JawBones :
       \E d \in {onLoad(Driver, meshes, jaw)} : Commit(d, "load")
  /\ UNCHANGED <<text, call, chatVars>>

Next ==
  \/ StartVisemePlayback
  \/ StopVisemePlayback
  \/ Frame
  \/ LoadModel

Spec == Init /\ [][Next]_vars

(***************************************************************************)
(* Specification of the renderer: in an animation frame animate runs       *)
(* first (its callback is requested at the end of its previous run, before *)
(* any handler or step of the frame requests one), then the callbacks of   *)
(* the driver.  Utterances start and run to their end.                     *)
(***************************************************************************)
SmoothFrame ==
  /\ \E ms \in SmoothSteps :
       /\ clock + ms <= MaxSmoothClock
       /\ \E d \in {runFrame(animate([Driver EXCEPT !.clock = @ + ms], ms),
                              rafCallbacks)} :
            Commit(d, "frame")
  /\ UNCHANGED <<text, call, loads, chatVars>>

SmoothStart == Len(playbacks) < MaxSmoothStarts /\ StartVisemePlayback

SmoothNext ==
  \/ SmoothStart
  \/ SmoothFrame
  \/ LoadModel

SmoothSpec == Init /\ [][SmoothNext]_vars

(***************************************************************************)
(* Specification of the driver left to itself: utterances start, nothing   *)
(* stops them, and the browser keeps running animation frames.  The clock  *)
(* passes MaxClock only while a callback is pending, so that no playback   *)
(* is cut short by the bound; no utterance starts after MaxClock.          *)
(***************************************************************************)
LiveFrame ==
  /\ \E dt \in FrameSteps :
       /\ clock + dt <= MaxClock \/ rafCallbacks # {}
       /\ \E d \in {runFrame([Driver EXCEPT !.clock = @ + dt], rafCallbacks)} :
            Commit(d, "frame")
  /\ UNCHANGED <<text, call, loads, chatVars>>

\* an utterance starts, no later than MaxClock
LiveStart == clock <= MaxClock /\ StartVisemePlayback

LiveNext ==
  \/ LiveStart
  \/ LiveFrame
  \/ LoadModel

\* what a LiveFrame step does to the clock.  A step of LiveNext is a
\* LiveFrame step exactly when it is a Tick step, and Tick is enabled exactly
\* when LiveFrame is.
Tick ==
  \E dt \in FrameSteps :
     /\ clock + dt <= MaxClock \/ rafCallbacks # {}
     /\ clock' = clock + dt
     /\ lastOp' = "frame"

\* the browser keeps running animation frames: weak fairness of LiveFrame,
\* stated on Tick
LiveSpec == Init /\ [][LiveNext]_vars /\ WF_clock(Tick)

(***************************************************************************)
(* Specification of the renderer across a change of character: the effect  *)
(* of characterId runs again and a second model finishes loading.          *)
(***************************************************************************)
JawStart == Len(playbacks) < MaxJawStarts /\ StartVisemePlayback

\* a model finishes loading, the first or after a change of character
JawLoad ==
  /\ loads < MaxJawLoads
  /\ loads' = loads + 1
  /\ \E meshes \in MeshLists, jaw \in JawBones :
       \E d \in {onLoad(Driver, meshes, jaw)} : Commit(d, "load")
  /\ UNCHANGED <<text, call, chatVars>>

JawNext ==
  \/ JawStart
  \/ StopVisemePlayback
  \/ Frame
  \/ JawLoad

JawSpec == Init /\ [][JawNext]_vars

(***************************************************************************)
(* Specification of the chat client: the user types, presses Enter, clicks *)
(* Send or the microphone; speech recognition gives its result; the        *)
(* fetches and sleeps of the sends settle.                                 *)
(***************************************************************************)
CommitClient(c) ==
  /\ messages' = c.messages
  /\ input' = c.input
  /\ loading' = c.loading
  /\ sends' = c.sends
  /\ utterances' = c.utterances

\* onChange of the input field, which is disabled while loading
ChangeInput ==
  /\ ~loading
  /\ \E t \in TypedTexts : input' = t
  /\ UNCHANGED <<text, call, driverVars, messages, loading, isListening,
                 recognition, sends, utterances>>

\* Enter in the input field, which is disabled while loading
PressEnter ==
  /\ ~loading
  /\ Len(sends) < MaxSends
  /\ CommitClient(send(Client, Undefined, "enter"))
  /\ UNCHANGED <<text, call, driverVars, isListening, recognition>>

\* the Send button, disabled while loading or without input
ClickSend ==
  /\ ~loading /\ input # <<>>
  /\ Len(sends) < MaxSends
  /\ CommitClient(send(Client, Undefined, "button"))
  /\ UNCHANGED <<text, call, driverVars, isListening, recognition>>

\* the microphone button, disabled while loading: startVoiceInput;
\* recognition.start() throws when the engine has not ended yet
ClickMic ==
  /\ ~loading
  /\ IF isListening
     THEN /\ recognition' = IF recognition = "active" THEN "stopping"
                            ELSE recognition
          /\ isListening' = FALSE
     ELSE IF recognition = "idle"
     THEN recognition' = "active" /\ isListening' = TRUE
     ELSE UNCHANGED <<recognition, isListening>>
  /\ UNCHANGED <<text, call, driverVars, messages, input, loading, sends,
                 utterances>>

\* recognition.onresult with a final result: setInput, then send
RecognitionResult ==
  /\ recognition \in {"active", "stopping"}
  /\ Len(sends) < MaxSends
  /\ \E spokenText \in SpokenTexts :
       CommitClient(send([Client EXCEPT !.input = spokenText],
                         Str(spokenText), "voice"))
  /\ recognition' = "ending"
  /\ UNCHANGED <<text, call, driverVars, isListening>>

\* recognition.onend
RecognitionEnd ==
  /\ recognition # "idle"
  /\ recognition' = "idle"
  /\ isListening' = FALSE
  /\ UNCHANGED <<text, call, driverVars, messages, input, loading, sends,
                 utterances>>

\* the fetch a send awaits settles
FetchSettles ==
  /\ \E i \in 1..Len(sends) :
       /\ sends[i].pc = "fetch"
       /\ \E outcome \in FetchOutcomes(requestOf(sends[i].message)) :
            \E c \in {afterFetch([Client EXCEPT !.sends[i].last =
                                      settledAs(outcome)],
                                   i, outcome)} : CommitClient(c)
  /\ UNCHANGED <<text, call, driverVars, isListening, recognition>>

\* the sleep a send awaits ends
SleepEnds ==
  /\ \E i \in 1..Len(sends) :
       /\ sends[i].pc = "sleep"
       /\ \E c \in {afterSleep(Client, i)} : CommitClient(c)
  /\ UNCHANGED <<text, call, driverVars, isListening, recognition>>

\* the utterances not ended yet, in the order they were spoken
Waiting == {k \in 1..Len(utterances) : utterances[k].state # "ended"}

\* utterance.onstart of the first waiting utterance
UtteranceStart ==
  /\ \E k \in Waiting :
       /\ \A j \in Waiting : k <= j
       /\ utterances[k].state = "queued"
       /\ utterances' = [utterances EXCEPT ![k].state = "speaking"]
       /\ \E d \in {startVisemePlayback(
                      applyExpression(Driver, utterances[k].expression),
                      seqOf(utterances[k].text))} : Commit(d, "start")
  /\ UNCHANGED <<text, call, loads, messages, input, loading, isListening,
                 recognition, sends>>

\* utterance.onend of the utterance being spoken
UtteranceEnd ==
  /\ \E k \in Waiting :
       /\ utterances[k].state = "speaking"
       /\ utterances' = [utterances EXCEPT ![k].state = "ended"]
       /\ \E d \in {clearExpression(stopVisemePlayback(Driver))} :
            Commit(d, "stop")
  /\ UNCHANGED <<text, call, loads, messages, input, loading, isListening,
                 recognition, sends>>

SendNext ==
  \/ ChangeInput
  \/ PressEnter
  \/ ClickSend
  \/ ClickMic
  \/ RecognitionResult
  \/ RecognitionEnd
  \/ FetchSettles
  \/ SleepEnds

SendSpec == Init /\ [][SendNext]_vars

\* the chat client where every fetch settles and every sleep ends
SendLiveSpec ==
  SendSpec /\ WF_vars(FetchSettles) /\ WF_vars(SleepEnds)

(***************************************************************************)
(* Specification of the chat client with its speech: the sends of the      *)
(* keyboard and the button, and the utterances they speak starting and     *)
(* ending on the renderer.                                                 *)
(***************************************************************************)
SpeakSend == Len(sends) < MaxSpeakSends /\ (PressEnter \/ ClickSend)

SpeakNext ==
  \/ ChangeInput
  \/ SpeakSend
  \/ FetchSettles
  \/ SleepEnds
  \/ UtteranceStart
  \/ UtteranceEnd

SpeakSpec == Init /\ [][SpeakNext]_vars

(***************************************************************************)
(* Specification of the route: POST is applied to a request body.          *)
(***************************************************************************)
RouteInit ==
  /\ text = <<>>
  /\ call = NoCall
  /\ DriverInit

CallPOST ==
  /\ call = NoCall
  /\ \E req \in Bodies, model \in ModelResults :
       call' = [fn |-> "POST", arg |-> req, model |-> model,
                result |-> POST(req, model)]
  /\ UNCHANGED <<text, driverVars, chatVars>>

RouteSpec == RouteInit /\ [][CallPOST]_vars

(***************************************************************************)
(* Specification of the analyzer, classifier and scheduler functions: a    *)
(* text is drawn and one of the functions is applied to it.                *)
(***************************************************************************)
FnInit ==
  /\ text \in Texts
  /\ call = NoCall
  /\ DriverInit

CallEstimateSpeechDuration ==
  /\ call = NoCall
  /\ \E wpm \in Wpms :
       call' = [fn |-> "estimateSpeechDuration", arg |-> wpm,
                result |-> estimateSpeechDuration(text, wpm)]
  /\ UNCHANGED <<text, driverVars, chatVars>>

CallEstimateSyllables ==
  /\ call = NoCall
  /\ call' = [fn |-> "estimateSyllables", arg |-> 0,
              result |-> estimateSyllables(text)]
  /\ UNCHANGED <<text, driverVars, chatVars>>

CallPickVisemeForChunk ==
  /\ call = NoCall
  /\ call' = [fn |-> "pickVisemeForChunk", arg |-> 0,
              result |-> pickVisemeForChunk(text)]
  /\ UNCHANGED <<text, driverVars, chatVars>>

CallGenerateVisemeSequence ==
  /\ call = NoCall
  /\ \E d \in Durations(text) :
       call' = [fn |-> "generateVisemeSequence", arg |-> d,
                result |-> generateVisemeSequence(text, d)]
  /\ UNCHANGED <<text, driverVars, chatVars>>

FnNext ==
  \/ CallEstimateSpeechDuration
  \/ CallEstimateSyllables
  \/ CallPickVisemeForChunk
  \/ CallGenerateVisemeSequence

FnSpec == FnInit /\ [][FnNext]_vars

(***************************************************************************)
(* Properties of the playback driver, checked under Spec                   *)
(***************************************************************************)
MouthChannels == mouthOpenKeys \cup smileKeys

\* the target weight of channel k; a channel that was never set asks for no
\* opening and is read as 0
Weight(targets, k) == IF k \in DOMAIN targets THEN targets[k] ELSE Zero

MouthNeutral == \A k \in MouthChannels : Weight(morphTargetTargetsRef, k) = Zero

\* C1: whatever the interleaving of starts, stops and animation frames, at
\* most one viseme callback is pending, it is the one visemeRAFRef holds and
\* it belongs to the schedule started last; and the mouth never shows an event
\* of a schedule that a later startVisemePlayback has superseded.
C1_SingleSchedule ==
  /\ Cardinality(rafCallbacks) <= 1
  /\ \A cb \in rafCallbacks :
       cb.play = Len(playbacks) /\ cb.handle = visemeRAFRef
  /\ mouthSource \in {0, Len(playbacks)}

\* a second schedule has superseded the first in the middle of its events
\* and has applied an event of its own
C1_Witness ==
  /\ Len(playbacks) = 2
  /\ playbacks[1].idx \in 1..(Len(playbacks[1].seq) - 1)
  /\ mouthSource = 2
  /\ rafCallbacks # {}

\* C2: from a startVisemePlayback until the first event of its schedule is
\* applied, every mouth-open and smile channel of the mouth target is set to
\* 0, also when the call interrupted a playback that had opened the mouth.
C2_ResetBeforeFirstEvent ==
  (playbacks # <<>> /\ playbacks[Len(playbacks)].idx = 0) =>
     \A k \in MouthChannels :
        k \in DOMAIN morphTargetTargetsRef /\ morphTargetTargetsRef[k] = Zero

\* startVisemePlayback has just interrupted a playback whose step was
\* pending and whose last event had opened the mouth
C2_Witness ==
  /\ lastOp = "start"
  /\ "step" \in pre.pending
  /\ \E k \in MouthChannels : Weight(pre.morphTargetTargetsRef, k) # Zero
  /\ playbacks[Len(playbacks)].idx = 0

\* C3: stopVisemePlayback always leaves the mouth target neutral; called
\* right after another stopVisemePlayback it changes no variable of the
\* driver; called when no callback is pending (Idle) it leaves the driver
\* Idle, with no callback pending and no handle held, and changes no weight
\* of the mouth target.  The state of the driver is here the pending
\* callback and the mouth target: on Idle the call may still clear a handle
\* of a callback that has already run, and write the jaw scalar.
C3_StopIdempotent ==
  [][lastOp' = "stop" =>
       /\ MouthNeutral'
       /\ lastOp = "stop" =>
            UNCHANGED <<clock, visemeRAFRef, rafCallbacks, nextHandle,
                        playbacks, morphTargetTargetsRef, targetJawOpenRef,
                        morphMeshesRef, jawBoneRef, mouthSource>>
       /\ rafCallbacks = {} =>
            /\ rafCallbacks' = {}
            /\ visemeRAFRef' = NoHandle
            /\ \A k \in MouthChannels :
                 Weight(morphTargetTargetsRef', k) = Weight(morphTargetTargetsRef, k)
            /\ UNCHANGED <<clock, nextHandle, playbacks, morphMeshesRef,
                           jawBoneRef, mouthSource>>]_vars

\* stopVisemePlayback has been called twice in a row after a playback: the
\* second call found the driver Idle
C3_Witness ==
  /\ lastOp = "stop"
  /\ pre.lastOp = "stop"
  /\ pre.pending = {}
  /\ playbacks # <<>>

(***************************************************************************)
(* Properties of the analyzer, classifier and scheduler, checked under     *)
(* FnSpec                                                                  *)
(***************************************************************************)
Quarter == FDivInt(FromInt(1), 4)

\* C4: generateVisemeSequence(text, d) returns exactly estimateSyllables(text)
\* events, at least one.
C4_EventCount ==
  call.fn = "generateVisemeSequence" =>
     /\ Len(call.result) = estimateSyllables(text)
     /\ Len(call.result) >= 1

\* a schedule with more events than the text has characters
C4_Witness ==
  /\ call.fn = "generateVisemeSequence"
  /\ text # <<>>
  /\ Len(text) < Len(call.result)

\* per = totalDuration / syllables, for the call that was made
PerOfCall == FDivInt(call.arg, estimateSyllables(text))

\* C5 as stated: the first offset is 0, the offsets never decrease, event i
\* (from 0) has offset exactly i * (d / estimateSyllables(text)), and every
\* offset is in [0, d).
C5_OffsetsAsStated ==
  call.fn = "generateVisemeSequence" =>
     /\ call.result[1].time = Zero
     /\ \A i \in 1..(Len(call.result) - 1) :
          FGeq(call.result[i + 1].time, call.result[i].time)
     /\ \A i \in 1..Len(call.result) :
          /\ call.result[i].time = FMulInt(PerOfCall, i - 1)
          /\ FGeq(call.result[i].time, Zero)
          /\ FLess(call.result[i].time, call.arg)

\* C5: the first offset is 0, every later offset is the floating-point sum
\* of the offset before it and per = d / estimateSyllables(text), the offsets
\* increase, and every offset is in [0, d).
C5_Offsets ==
  call.fn = "generateVisemeSequence" =>
     /\ call.result[1].time = Zero
     /\ \A i \in 1..(Len(call.result) - 1) :
          /\ call.result[i + 1].time = FAdd(call.result[i].time, PerOfCall)
          /\ FLess(call.result[i].time, call.result[i + 1].time)
     /\ \A i \in 1..Len(call.result) :
          /\ FGeq(call.result[i].time, Zero)
          /\ FLess(call.result[i].time, call.arg)

\* a schedule one of whose offsets is not the product i * per
C5_Witness ==
  /\ call.fn = "generateVisemeSequence"
  /\ \E i \in 1..Len(call.result) :
       call.result[i].time # FMulInt(PerOfCall, i - 1)

\* whether s holds one of the letters
Contains(s, letters) == \E i \in 1..Len(s) : s[i] \in letters

\* C6: pickVisemeForChunk takes the first rule that matches, letters of
\* either case: o or u gives round; else i, e or a gives wide; else b, m, p,
\* f, v or w gives closed; else t, d, k or g gives closed; else s or h gives
\* wide; else open.  It never gives neutral.
C6_FirstMatch ==
  call.fn = "pickVisemeForChunk" =>
     /\ call.result =
          IF Contains(text, {"o", "u", "O", "U"}) THEN "round"
          ELSE IF Contains(text, {"i", "e", "a", "I", "E", "A"}) THEN "wide"
          ELSE IF Contains(text, {"b", "m", "p", "f", "v", "w",
                                  "B", "M", "P", "F", "V", "W"}) THEN "closed"
          ELSE IF Contains(text, {"t", "d", "k", "g", "T", "D", "K", "G"})
               THEN "closed"
          ELSE IF Contains(text, {"s", "h", "S", "H"}) THEN "wide"
          ELSE "open"
     /\ call.result # "neutral"

\* a fragment that two rules match: the earlier rule wins
C6_Witness ==
  /\ call.fn = "pickVisemeForChunk"
  /\ Contains(text, {"o"})
  /\ Contains(text, {"a", "b", "t", "s"})
  /\ call.result = "round"

\* max(1, ceil(text.length / estimateSyllables(text)))
ExpectedChunkSize ==
  LET n == estimateSyllables(text)
      q == Len(text) \div n
      c == IF q * n = Len(text) THEN q ELSE q + 1
  IN IF c < 1 THEN 1 ELSE c

\* text[i * chunkSize, (i + 1) * chunkSize), i counted from 0
ChunkRange(i) ==
  LET last == IF (i + 1) * ExpectedChunkSize < Len(text)
              THEN (i + 1) * ExpectedChunkSize ELSE Len(text)
  IN IF i * ExpectedChunkSize >= Len(text) THEN <<>>
     ELSE SubSeq(text, i * ExpectedChunkSize + 1, last)

LastCharacter == IF text = <<>> THEN <<>> ELSE <<text[Len(text)]>>

HelloSchedule ==
  <<[time |-> Zero, viseme |-> "wide"], [time |-> Quarter, viseme |-> "round"]>>

\* C7 as stated: event i carries the classification of the chunk
\* text[i * chunkSize, (i + 1) * chunkSize), and "Hello" with d = 0.5 gives
\* [{0, wide}, {0.25, round}].
C7_ChunksAsStated ==
  call.fn = "generateVisemeSequence" =>
     /\ \A i \in 1..Len(call.result) :
          call.result[i].viseme = pickVisemeForChunk(ChunkRange(i - 1))
     /\ (text = Hello /\ call.arg = Half) => call.result = HelloSchedule

\* C7: event i carries the classification of the chunk
\* text[i * chunkSize, (i + 1) * chunkSize) when that chunk is not empty, and
\* of the last character of the text when it is; "Hello" with d = 0.5 gives
\* [{0, wide}, {0.25, round}].
C7_Chunks ==
  call.fn = "generateVisemeSequence" =>
     /\ \A i \in 1..Len(call.result) :
          call.result[i].viseme =
             pickVisemeForChunk(IF ChunkRange(i - 1) # <<>>
                                THEN ChunkRange(i - 1) ELSE LastCharacter)
     /\ (text = Hello /\ call.arg = Half) => call.result = HelloSchedule

\* a schedule with an event whose chunk lies beyond the end of the text and
\* is classified by the last character, not as the empty chunk would be
C7_Witness ==
  /\ call.fn = "generateVisemeSequence"
  /\ \E i \in 1..Len(call.result) :
       /\ ChunkRange(i - 1) = <<>>
       /\ call.result[i].viseme = pickVisemeForChunk(LastCharacter)
       /\ call.result[i].viseme # pickVisemeForChunk(<<>>)

\* C8: for the empty string estimateSpeechDuration gives 0.5,
\* estimateSyllables gives 2, and generateVisemeSequence("", 0.5) gives
\* [{0, open}, {0.25, open}].
C8_EmptyString ==
  text = <<>> =>
     /\ (call.fn = "estimateSpeechDuration" /\ call.arg = DefaultWpm)
          => call.result = Half
     /\ call.fn = "estimateSyllables" => call.result = 2
     /\ (call.fn = "generateVisemeSequence" /\ call.arg = Half)
          => call.result = <<[time |-> Zero, viseme |-> "open"],
                             [time |-> Quarter, viseme |-> "open"]>>

\* generateVisemeSequence("", 0.5) has been called
C8_Witness ==
  /\ text = <<>>
  /\ call.fn = "generateVisemeSequence"
  /\ call.arg = Half

\* C9 as stated: the empty string has the minimum duration 0.5 (at the
\* default words per minute) and, by the fallback path, the syllable count 1.
C9_EmptyAsStated ==
  text = <<>> =>
     /\ (call.fn = "estimateSpeechDuration" /\ call.arg = DefaultWpm)
          => call.result = Half
     /\ call.fn = "estimateSyllables" => call.result = 1

\* C9: the empty string has the minimum duration 0.5 (at the default words
\* per minute) and, by the fallback path (no vowel group, one word counted,
\* round(1 * 1.5)), the syllable count 2.
C9_Empty ==
  text = <<>> =>
     /\ (call.fn = "estimateSpeechDuration" /\ call.arg = DefaultWpm)
          => call.result = Half
     /\ call.fn = "estimateSyllables" =>
          /\ ~Contains(text, {"a", "e", "i", "o", "u", "y"})
          /\ call.result = 2

\* estimateSyllables("") has been called
C9_Witness ==
  /\ text = <<>>
  /\ call.fn = "estimateSyllables"

\* the number of whitespace-separated non-empty tokens of text, or 1 if there
\* is none
WordCount ==
  LET starts == {i \in 1..Len(text) :
                   /\ text[i] \notin WhiteSpace
                   /\ (i = 1 \/ text[i - 1] \in WhiteSpace)}
  IN IF starts = {} THEN 1 ELSE Cardinality(starts)

\* C10: estimateSpeechDuration(text, wpm) is max(0.5, (wordCount / wpm) * 60)
\* with wordCount the number of non-empty whitespace-separated tokens, or 1
\* if there is none; the result is never below 0.5.
C10_Duration ==
  call.fn = "estimateSpeechDuration" =>
     /\ call.result = FMax(Half, FMulInt(FDivInt(FromInt(WordCount), call.arg), 60))
     /\ FGeq(call.result, Half)

\* durations on either side of the floor: a text of several words that takes
\* longer than 0.5 s
C10_Witness ==
  /\ call.fn = "estimateSpeechDuration"
  /\ WordCount >= 2
  /\ text[Len(text)] \in WhiteSpace
  /\ FLess(Half, call.result)

VowelLetters == {"a", "e", "i", "o", "u", "y", "A", "E", "I", "O", "U", "Y"}

\* the number of maximal runs of vowel letters of text
VowelRuns ==
  Cardinality({i \in 1..Len(text) :
                 /\ text[i] \in VowelLetters
                 /\ (i = 1 \/ text[i - 1] \notin VowelLetters)})

\* C11: estimateSyllables(text) is the number of maximal runs of the letters
\* a, e, i, o, u, y of either case when there is such a run, and otherwise
\* max(1, round(wordCount * 1.5)) with wordCount at least 1; it is at least 1.
C11_Syllables ==
  call.fn = "estimateSyllables" =>
     /\ VowelRuns >= 1 => call.result = VowelRuns
     /\ VowelRuns = 0 =>
          /\ WordCount >= 1
          /\ call.result = WordCount + (WordCount + 1) \div 2
     /\ call.result >= 1

\* a text whose only vowel run has two letters, one of them upper-case
C11_Witness ==
  /\ call.fn = "estimateSyllables"
  /\ Len(text) = 2
  /\ text[1] \in VowelLetters
  /\ text[2] = "A"
  /\ call.result = 1

(***************************************************************************)
(* Further properties of the playback driver, checked under Spec           *)
(***************************************************************************)
\* the closure of the startVisemePlayback called last
Latest == playbacks[Len(playbacks)]

\* whether a callback of the given kind is pending
Pending(kind) == \E cb \in rafCallbacks : cb.kind = kind

\* C12: when a playback is not cancelled, the tick that applies the last
\* event of its schedule requests the reset and applies no neutral itself;
\* the next tick applies neutral, exactly once and nothing else, and leaves
\* no callback pending (Idle); from the last event on no step callback is
\* pending, so that no further viseme is applied, and a tick that finds the
\* driver Idle applies nothing.
C12_NaturalCompletion ==
  [][/\ (lastOp' = "frame" /\ Pending("neutral")) =>
          /\ applied' = <<"neutral">>
          /\ rafCallbacks' = {}
          /\ MouthNeutral'
          /\ playbacks' = playbacks
     /\ (lastOp' = "frame" /\ Pending("step")
           /\ Latest'.idx = Len(Latest'.seq)) =>
          /\ \A i \in 1..Len(applied') : applied'[i] # "neutral"
          /\ Cardinality(rafCallbacks') = 1
          /\ Pending("neutral")'
     /\ (lastOp' = "frame" /\ rafCallbacks = {}) =>
          /\ applied' = <<>>
          /\ rafCallbacks' = {}
     /\ (playbacks' # <<>> /\ Latest'.idx = Len(Latest'.seq)) => ~Pending("step")']_vars

\* the schedule of "Hello" has been played to its end without a cancel: the
\* last tick applied neutral and left the driver Idle
C12_Witness ==
  /\ lastOp = "frame"
  /\ applied = <<"neutral">>
  /\ rafCallbacks = {}
  /\ Len(playbacks) = 1
  /\ Latest.idx = 2
  /\ MouthNeutral

\* C13: stopVisemePlayback leaves the mouth target neutral, no callback
\* pending and no handle held; from then until the next startVisemePlayback
\* every step keeps it so, a tick applies nothing and advances no schedule;
\* and a tick never advances a schedule other than the one started last.
C13_StopStays ==
  [][/\ lastOp' = "stop" =>
          /\ MouthNeutral'
          /\ rafCallbacks' = {}
          /\ visemeRAFRef' = NoHandle
     /\ (visemeRAFRef = NoHandle /\ lastOp' # "start") =>
          /\ visemeRAFRef' = NoHandle
          /\ rafCallbacks' = {}
          /\ MouthNeutral'
          /\ playbacks' = playbacks
          /\ lastOp' = "frame" => applied' = <<>>
     /\ lastOp' = "frame" =>
          \A p \in 1..(Len(playbacks) - 1) : playbacks'[p] = playbacks[p]]_vars

\* the schedule of "Hello" was stopped between its two events, and a tick
\* came after the offset of the second: the event was not applied
C13_Witness ==
  /\ lastOp = "frame"
  /\ visemeRAFRef = NoHandle
  /\ playbacks # <<>>
  /\ Latest.idx = 1
  /\ Len(Latest.seq) = 2
  /\ clock - Latest.start >= 250
  /\ MouthNeutral

\* the number of events of schedule seq whose offset is at most e
Due(seq, e) == Cardinality({i \in 1..Len(seq) : FGeq(e, seq[i].time)})

\* C14: a tick in which the step of the playback runs, at elapsed time e,
\* applies the events that are due (offset at most e) and not yet applied,
\* in schedule order and each once, and no other; afterwards every event with
\* offset at most e has been applied and the mouth target is that of the
\* viseme of the last of them.
C14_EventOrder ==
  [][(lastOp' = "frame" /\ Pending("step")) =>
       \A seq \in {Latest.seq} :
         \A e \in {FDivInt(FromInt(clock' - Latest.start), 1000)} :
           \A due \in {Due(seq, e)} :
             /\ Latest.idx <= due
             /\ \A i \in 1..due : FGeq(e, seq[i].time)
             /\ Latest'.idx = due
             /\ applied' = [i \in 1..(due - Latest.idx) |-> seq[Latest.idx + i].viseme]
             /\ due >= 1
             /\ \A k \in mouthOpenKeys :
                  morphTargetTargetsRef'[k] = mouthValue(seq[due].viseme)
             /\ \A k \in smileKeys :
                  morphTargetTargetsRef'[k] = smileValue(seq[due].viseme)
             /\ mouthSource' = Len(playbacks)]_vars

\* both events of "Hello" were due at one tick: they were applied in order
\* and the target is that of the second, round
C14_Witness ==
  /\ lastOp = "frame"
  /\ applied = <<"wide", "round">>
  /\ Latest.idx = 2
  /\ \A k \in mouthOpenKeys : morphTargetTargetsRef[k] = Literal08

(***************************************************************************)
(* Termination of a playback, checked under LiveSpec                       *)
(***************************************************************************)
\* C15: with animation frames firing and no stop, a playback that has been
\* started always comes to the state where no callback is pending and the
\* mouth target is neutral; and the step callback is requested again only
\* while the elapsed time of the last tick is below the offset of the last
\* event, which is below the duration of the schedule.
C15_SelfTerminating ==
  /\ [](Pending("step") /\ Latest.idx >= 1 =>
          FLess(FDivInt(FromInt(clock - Latest.start), 1000),
                Latest.seq[Len(Latest.seq)].time))
  /\ (Pending("step") ~> (rafCallbacks = {} /\ MouthNeutral))

\* a playback started at the last moment allowed has ended by itself, past
\* MaxClock
C15_Witness ==
  /\ lastOp = "frame"
  /\ applied = <<"neutral">>
  /\ rafCallbacks = {}
  /\ clock > MaxClock
  /\ Latest.idx = Len(Latest.seq)

(***************************************************************************)
(* The mouth target, checked under Spec                                    *)
(***************************************************************************)
\* n hundredths, as the nearest binary64 number
Hundredths(n) == FDivInt(FromInt(n), 100)
Weight000 == Hundredths(0)
Weight040 == Hundredths(40)
Weight060 == Hundredths(60)
Weight080 == Hundredths(80)
Weight090 == Hundredths(90)
Weight100 == Hundredths(100)

\* the mouth-open weight the mapping gives a viseme
ExpectedMouth(v) ==
  CASE v = "closed"  -> Weight000
    [] v = "wide"    -> Weight060
    [] v = "open"    -> Weight090
    [] v = "round"   -> Weight080
    [] v = "neutral" -> Weight000

\* the smile weight the mapping gives a viseme
ExpectedSmile(v) == IF v = "wide" THEN Weight040 ELSE Weight000

\* C16: after an operation that called applyViseme, the target of every
\* mouth-open channel is 0.0 for closed, 0.6 for wide, 0.9 for open, 0.8 for
\* round and 0.0 for neutral, and the target of every smile channel is 0.4
\* for wide and 0.0 otherwise, for the viseme applied last; in every state
\* every target weight is in [0, 1], and a smile target is 0.4 exactly when
\* a mouth-open target is 0.6.
C16_Mapping ==
  /\ applied # <<>> =>
       /\ \A k \in mouthOpenKeys :
            morphTargetTargetsRef[k] = ExpectedMouth(applied[Len(applied)])
       /\ \A k \in smileKeys :
            morphTargetTargetsRef[k] = ExpectedSmile(applied[Len(applied)])
  /\ \A k \in DOMAIN morphTargetTargetsRef :
       /\ FGeq(morphTargetTargetsRef[k], Weight000)
       /\ FGeq(Weight100, morphTargetTargetsRef[k])
  /\ \A j \in mouthOpenKeys, k \in smileKeys :
       (j \in DOMAIN morphTargetTargetsRef /\ k \in DOMAIN morphTargetTargetsRef) =>
          (morphTargetTargetsRef[k] = Weight040
             <=> morphTargetTargetsRef[j] = Weight060)

\* a tick has applied wide: the mouth-open targets are 0.6, the smile
\* targets 0.4
C16_Witness ==
  /\ lastOp = "frame"
  /\ applied = <<"wide">>
  /\ \A k \in mouthOpenKeys : morphTargetTargetsRef[k] = Weight060
  /\ \A k \in smileKeys : morphTargetTargetsRef[k] = Weight040

\* C17 as stated: when there are no morph meshes, after an operation that
\* called applyViseme the morph target map is set as usual and the jaw scalar
\* targetJawOpenRef is the mouth-open weight of the viseme applied last.
C17_JawScalarAsStated ==
  (applied # <<>> /\ morphMeshesRef = <<>>) =>
     /\ \A k \in mouthOpenKeys :
          morphTargetTargetsRef[k] = ExpectedMouth(applied[Len(applied)])
     /\ \A k \in smileKeys :
          morphTargetTargetsRef[k] = ExpectedSmile(applied[Len(applied)])
     /\ targetJawOpenRef = ExpectedMouth(applied[Len(applied)])

\* no morph meshes and no jaw bone yet: a tick has applied an event that
\* opens the mouth, the map has its weight and the jaw scalar is still 0
C17_Witness ==
  /\ lastOp = "frame"
  /\ applied # <<>>
  /\ morphMeshesRef = <<>>
  /\ jawBoneRef = NULL
  /\ \A k \in mouthOpenKeys :
       /\ morphTargetTargetsRef[k] = ExpectedMouth(applied[Len(applied)])
       /\ morphTargetTargetsRef[k] # Weight000
  /\ targetJawOpenRef = Weight000

\* a step in which the active playback (its step callback pending, so events
\* of its schedule are left) is cancelled: a new playback takes its place, or
\* its step callback is gone with events still left
Cancelled ==
  /\ Pending("step")
  /\ \/ Len(playbacks') > Len(playbacks)
     \/ ~Pending("step")' /\ Latest'.idx < Len(Latest'.seq)

\* C18 as stated: only the start of a new utterance's playback cancels an
\* active playback before all of its events are applied.
C18_OnlyStartAsStated == [][Cancelled => lastOp' = "start"]_vars

\* C18: an active playback is cancelled before all of its events are applied
\* only by stopVisemePlayback, called by the start of a new playback or by
\* the end of the utterance; a tick or a model load never cancels it, and
\* both callers do cancel it.
C18_OnlyStartOrStop ==
  [][/\ Cancelled => lastOp' \in {"start", "stop"}
     /\ (Pending("step") /\ lastOp' \in {"start", "stop"}) => Cancelled]_vars

\* the end of the utterance has cancelled a playback with an event left
C18_Witness ==
  /\ lastOp = "stop"
  /\ "step" \in pre.pending
  /\ rafCallbacks = {}
  /\ Latest.idx < Len(Latest.seq)

\* the chunk that iteration i (from 0) of generateVisemeSequence passes to
\* pickVisemeForChunk
ChunkPassed(i) ==
  chunkAt(text, i * chunkSizeOf(text, estimateSyllables(text)),
          chunkSizeOf(text, estimateSyllables(text)))

\* C19 as stated: for every text, every chunk passed to the classifier is
\* non-empty, and a chunk whose index range lies beyond the end of the text
\* is the single last character of the text.
C19_NonEmptyChunksAsStated ==
  call.fn = "generateVisemeSequence" =>
     \A i \in 0..(Len(call.result) - 1) :
        /\ ChunkPassed(i) # <<>>
        /\ ChunkRange(i) = <<>> =>
             ChunkPassed(i) = <<text[Len(text)]>>

\* C19: for every non-empty text, every chunk passed to the classifier is
\* non-empty: it is its index range of the text, or the single last
\* character of the text when that range lies beyond the end; for the empty
\* text every chunk passed is empty.
C19_NonEmptyChunks ==
  call.fn = "generateVisemeSequence" =>
     \A i \in 0..(Len(call.result) - 1) :
        IF text = <<>> THEN ChunkPassed(i) = <<>>
        ELSE /\ ChunkPassed(i) # <<>>
             /\ ChunkPassed(i) = IF ChunkRange(i) # <<>> THEN ChunkRange(i)
                                 ELSE <<text[Len(text)]>>

\* a non-empty text with an iteration whose range lies beyond its end
C19_Witness ==
  /\ call.fn = "generateVisemeSequence"
  /\ text # <<>>
  /\ \E i \in 0..(Len(call.result) - 1) :
       /\ i * ExpectedChunkSize >= Len(text)
       /\ ChunkPassed(i) = <<text[Len(text)]>>

\* the characters of the tables of letters, and white space
Ascii ==
  {UpperCase[j] : j \in 1..Len(UpperCase)}
  \cup {LowerCase[j] : j \in 1..Len(LowerCase)} \cup WhiteSpace

RECURSIVE toUpperCase(_)
\* String.prototype.toUpperCase: a letter becomes its capital, and the
\* letter ß, which has no capital of its own, becomes SS
toUpperCase(s) ==
  IF s = <<>> THEN <<>>
  ELSE (IF \E j \in 1..Len(LowerCase) : LowerCase[j] = Head(s)
        THEN <<UpperCase[CHOOSE j \in 1..Len(LowerCase) : LowerCase[j] = Head(s)]>>
        ELSE IF Head(s) = "ß" THEN <<"S", "S">>
        ELSE <<Head(s)>>)
       \o toUpperCase(Tail(s))

\* C20 as stated: every fragment, its lower-cased form and its upper-cased
\* form are classified alike; an upper-case A is classified as wide.
C20_CaseInsensitiveAsStated ==
  call.fn = "pickVisemeForChunk" =>
     /\ call.result = pickVisemeForChunk(toLowerCase(text))
     /\ call.result = pickVisemeForChunk(toUpperCase(text))
     /\ text = <<"A">> => call.result = "wide"

\* C20: every fragment and its lower-cased form are classified alike, and
\* so is its upper-cased form when the fragment is made of ASCII characters;
\* an upper-case A is classified as wide.  (The letter ß is classified as
\* open and its upper-cased form SS as wide.)
C20_CaseInsensitive ==
  call.fn = "pickVisemeForChunk" =>
     /\ call.result = pickVisemeForChunk(toLowerCase(text))
     /\ (\A i \in 1..Len(text) : text[i] \in Ascii) =>
          call.result = pickVisemeForChunk(toUpperCase(text))
     /\ text = <<"A">> => call.result = "wide"
     /\ text = <<"ß">> =>
          /\ call.result = "open"
          /\ pickVisemeForChunk(toUpperCase(text)) = "wide"

\* an upper-case A, which the rule for round names, classified as wide
C20_Witness ==
  /\ call.fn = "pickVisemeForChunk"
  /\ text = <<"A">>
  /\ call.result = "wide"
  /\ toLowerCase(text) # text
  /\ toUpperCase(toLowerCase(text)) = text

\* x <= y
FLeq(x, y) == ~FLess(y, x)

\* next lies between cur and tgt, the ends included
Between(cur, tgt, next) ==
  \/ FLeq(cur, next) /\ FLeq(next, tgt)
  \/ FLeq(tgt, next) /\ FLeq(next, cur)

\* 2^-40
Tiny == [m |-> FromInt(1).m, e |-> FromInt(1).e - 40]

\* x and y differ by less than 2^-40
Near(x, y) == IF FLess(x, y) THEN FLess(FSub(y, x), Tiny) ELSE FLess(FSub(x, y), Tiny)

\* the literal 1
Weight1 == FromInt(1)

\* a damped move of a weight: no overshoot, within [0, 1], and not all the
\* way to a different target
Damped(cur, tgt, next) ==
  /\ Between(cur, tgt, next)
  /\ FLeq(next, Weight1)
  /\ cur # tgt => next # tgt

\* a move of a weight in a frame of ms milliseconds, cap being the frame
\* time from which Math.min caps the factor at 1: below cap no overshoot,
\* and a move of part of the way unless the weight is at the target already,
\* within rounding; from cap on a move to the target, within rounding
Smoothed(cur, tgt, next, ms, cap) ==
  IF ms < cap
  THEN /\ Between(cur, tgt, next)
       /\ FLeq(next, Weight1)
       /\ ~Near(cur, tgt) => (next # cur /\ next # tgt)
  ELSE /\ Near(next, tgt)
       /\ FLeq(next, Weight1)

\* the channels animate smooths
Smoothable == DOMAIN morphTargetInfluences \cap DOMAIN morphTargetTargetsRef

\* C21 as stated: in every frame each rendered weight (morph influence, jaw
\* value) moves from its value toward its target without overshoot, stays
\* in [0, 1], and does not reach a different target in that one frame.
C21_DampedAsStated ==
  [][lastOp' = "frame" =>
       /\ \A name \in Smoothable :
            Damped(morphTargetInfluences[name], morphTargetTargetsRef[name],
                   morphTargetInfluences'[name])
       /\ jawBoneRef # NULL =>
            Damped(currentJawOpenRef, targetJawOpenRef, currentJawOpenRef')]_vars

\* C21: in a frame shorter than 100 ms (125 ms for the jaw value) each
\* rendered weight moves part of the way from its value toward its target,
\* without overshoot; in a longer frame it moves to the target at once, up
\* to rounding; it stays in [0, 1] in both.
C21_Damped ==
  [][lastOp' = "frame" =>
       /\ \A name \in Smoothable :
            Smoothed(morphTargetInfluences[name], morphTargetTargetsRef[name],
                     morphTargetInfluences'[name], clock' - clock, 100)
       /\ jawBoneRef # NULL =>
            Smoothed(currentJawOpenRef, targetJawOpenRef, currentJawOpenRef',
                     clock' - clock, 125)]_vars

\* a short frame has moved the mouth-open influence half of the way to the
\* target of open
C21_Witness ==
  /\ lastOp = "frame"
  /\ "jawOpen" \in Smoothable
  /\ morphTargetTargetsRef["jawOpen"] = Weight090
  /\ FLess(Weight000, morphTargetInfluences["jawOpen"])
  /\ FLess(morphTargetInfluences["jawOpen"], Weight060)

\* the request of the call of POST supplies a prompt in field f
Supplies(f) == Truthy(optionalField(call.arg, f))

\* the call of POST went on to the model, and answered with the model's text
\* or, when the model call threw, with 500
Accepted ==
  /\ call.result.modelCalled
  /\ call.result.response =
       IF call.model.type = "throws" THEN InternalServerError
       ELSE jsonResponse(200, Obj([f \in {"text"} |-> call.model.text]))

\* the call of POST answered 400 without calling the model
Refused ==
  /\ ~call.result.modelCalled
  /\ call.result.response = PromptRequired

PlaceholderIn(msgs, i) ==
  TheOne({m \in {msgs[k] : k \in DOMAIN msgs} : m.id = sends[i].charMsgId})

Placeholder(i) == PlaceholderIn(messages, i)

\* the fetch was answered with a status that is neither OK nor 503
Refusal(settled) ==
  ~settled.threw /\ settled.status \notin (200..299) \cup {503}

C22_RetryPolicy ==
  [][\A i \in DOMAIN sends :
       /\ sends[i].pc = "done" => sends'[i] = sends[i]
       /\ sends[i].pc = "fetch" /\ sends'[i].pc = "sleep" =>
            /\ sends'[i].last.threw \/ sends'[i].last.status = 503
            /\ Len(sends[i].waits) < 3
            /\ sends'[i].waits =
                 Append(sends[i].waits,
                        <<1000, 2000, 4000>>[Len(sends[i].waits) + 1])
       /\ sends[i].pc = "fetch" /\ sends'[i].pc # "fetch"
          /\ Refusal(sends'[i].last) =>
            /\ sends'[i].pc = "done"
            /\ sends'[i].fetches = sends[i].fetches
            /\ PlaceholderIn(messages', i).text.kind = "Server error"
            /\ ~PlaceholderIn(messages', i).isStreaming
       /\ sends[i].pc = "sleep" =>
            sends'[i].fetches \in {sends[i].fetches, sends[i].fetches + 1}
     ]_vars

\* a send that made its three retries after 1000, 2000 and 4000 ms and was
\* then refused with a status other than 503
C22_Witness ==
  \E i \in DOMAIN sends :
    /\ sends[i].waits = <<1000, 2000, 4000>>
    /\ sends[i].pc = "done"
    /\ Refusal(sends[i].last)
    /\ Placeholder(i).text.kind = "Server error"

(***************************************************************************)
(* C23: every send started with a non-empty message calls speakText        *)
(* exactly once before it finishes: with the reply text on success, with a *)
(* fallback sentence on every failure, so that no outcome is silent.       *)
(***************************************************************************)
Finished == {i \in DOMAIN sends : sends[i].pc = "done"}

C23_SpokenOnce ==
  /\ \A i \in DOMAIN sends :
       /\ sends[i].message # <<>>
       /\ i \notin Finished => sends[i].spoken = <<>>
       /\ i \in Finished =>
            /\ Len(sends[i].spoken) = 1
            /\ sends[i].spoken[1] # <<>>
            /\ IF Placeholder(i).text.kind = "plain"
               THEN sends[i].spoken[1] = Placeholder(i).text.value
               ELSE /\ Placeholder(i).text.kind
                         \in {"Server error", "Error contacting server."}
                    /\ sends[i].spoken[1] \in {TroubleSentence, UnreachableSentence}
  /\ Len(utterances) = Cardinality(Finished)
  /\ \A k \in DOMAIN utterances :
       \E i \in Finished : utterances[k].text = sends[i].spoken[1]

\* a send whose four attempts all threw has spoken its fallback sentence
C23_Witness ==
  \E i \in Finished :
    /\ sends[i].fetches = 4
    /\ Placeholder(i).text.kind = "Error contacting server."
    /\ Len(sends[i].spoken) = 1
    /\ Len(utterances) >= 1

(***************************************************************************)
(* C25: in the client composed with the route of the repository, a failure *)
(* of the upstream model call makes send retry with backoff, up to 3       *)
(* times, before the error is surfaced.                                    *)
(***************************************************************************)
\* what the route answers to send number i when the model call throws
UpstreamFailure(i) ==
  POST(requestOf(sends[i].message), [type |-> "throws"]).response

\* the last fetch of send number i was answered by the route after a failure
\* of the model call
FailedUpstream(i) ==
  /\ ~sends[i].last.threw
  /\ sends[i].last.status = UpstreamFailure(i).status

\* as stated: a send that surfaced the failure of the model call has made
\* its three retries first
C25_UpstreamRetriedAsStated ==
  \A i \in Finished :
    FailedUpstream(i) => sends[i].waits = <<1000, 2000, 4000>>

\* the failure of the model call on the first attempt is surfaced at once
C25_Witness ==
  \E i \in Finished :
    /\ FailedUpstream(i)
    /\ sends[i].fetches = 1
    /\ sends[i].waits = <<>>
    /\ Placeholder(i).text = ServerErrorNotice(<<"Internal Server Error">>)

(***************************************************************************)
(* C26: if every fetch settles, every send terminates after at most 4      *)
(* fetches (1 initial, 3 retries); when it terminates loading is false and *)
(* its placeholder has isStreaming false; the 'Unexpected error.' branch   *)
(* after the loop is never reached.                                        *)
(***************************************************************************)
C26_Terminates ==
  /\ \A i \in 1..MaxSends :
       (Len(sends) >= i) ~> (Len(sends) >= i /\ sends[i].pc = "done")
  /\ [](\A i \in DOMAIN sends :
          /\ sends[i].fetches <= 4
          /\ sends[i].pc \in {"fetch", "sleep", "done"}
          /\ Placeholder(i).text # UnexpectedError
          /\ sends[i].pc = "done" => ~Placeholder(i).isStreaming)
  /\ [][\A i \in DOMAIN sends :
          sends[i].pc # "done" /\ sends'[i].pc = "done" => ~loading']_vars

\* a send that terminated after its fourth fetch
C26_Witness ==
  \E i \in Finished :
    /\ sends[i].fetches = 4
    /\ ~loading
    /\ ~Placeholder(i).isStreaming

(***************************************************************************)
(* C27: once a fetch of a send has returned an OK response, no further     *)
(* fetch is issued for that send, and the placeholder is set to the text   *)
(* of the response (or to 'Error: No text in response.' when there is      *)
(* none), never to a retry or error notice.                                *)
(***************************************************************************)
\* as stated: the step in which a fetch settles with an OK response ends
\* the send and shows a text
C27_OkIsFinalAsStated ==
  [][\A i \in DOMAIN sends :
       /\ sends[i].pc = "fetch" /\ sends'[i].pc # "fetch"
       /\ sends'[i].last.status \in 200..299
       => /\ sends'[i].pc = "done"
          /\ PlaceholderIn(messages', i).text.kind = "plain"
          /\ PlaceholderIn(messages', i).text.value # <<>>
     ]_vars

\* an OK response whose body is not JSON left the send waiting for a retry
\* under a notice of a network error
C27_Witness ==
  \E i \in DOMAIN sends :
    /\ sends[i].last.status \in 200..299
    /\ sends[i].pc = "sleep"
    /\ Placeholder(i).text.kind = "retrying"
    /\ Placeholder(i).text.cause = "Network error"
    /\ Placeholder(i).isStreaming

(***************************************************************************)
(* C28: at most one send is in progress at any time: while loading is true *)
(* no second send can begin, whether from the text input, the Send button  *)
(* or the result handler of speech recognition, so two placeholders are    *)
(* never streaming at once.                                                *)
(***************************************************************************)
InProgress == {i \in DOMAIN sends : sends[i].pc # "done"}

Streaming == {k \in DOMAIN messages : messages[k].isStreaming}

\* as stated
C28_OneSendAsStated ==
  /\ Cardinality(InProgress) <= 1
  /\ Cardinality(Streaming) <= 1
  /\ InProgress # {} => loading

\* a send begun by the result handler while a typed send was in progress
C28_Witness ==
  \E i, j \in InProgress :
    /\ i < j
    /\ sends[i].trigger \in {"enter", "button"}
    /\ sends[j].trigger = "voice"
    /\ Cardinality(Streaming) = 2

(***************************************************************************)
(* C30: generateVisemeSequence and startVisemePlayback are never reached   *)
(* with an empty text: speakText returns when its text is empty, and send  *)
(* replaces a missing or empty reply by a non-empty message before it      *)
(* speaks.                                                                 *)
(***************************************************************************)
C30_NeverEmpty ==
  /\ \A i \in Finished :
       /\ sends[i].spoken # <<>>
       /\ \A k \in DOMAIN sends[i].spoken : sends[i].spoken[k] # <<>>
       /\ Placeholder(i).text.kind = "plain" => Placeholder(i).text.value # <<>>
  /\ \A k \in DOMAIN utterances : utterances[k].text # <<>>
  /\ \A p \in DOMAIN playbacks :
       /\ playbacks[p].seq # <<>>
       /\ \E k \in DOMAIN utterances :
            /\ utterances[k].state # "queued"
            /\ playbacks[p].seq =
                 generateVisemeSequence(
                   utterances[k].text,
                   estimateSpeechDuration(utterances[k].text, 160))

\* the playback of the message that replaced a reply without text
C30_Witness ==
  /\ playbacks # <<>>
  /\ \E i \in Finished :
       /\ sends[i].last.status = 200
       /\ sends[i].spoken = <<NoTextInResponse>>
       /\ \E k \in DOMAIN utterances :
            /\ utterances[k].text = NoTextInResponse
            /\ utterances[k].state = "speaking"

(***************************************************************************)
(* C29: whenever no viseme playback is active (after stopVisemePlayback or *)
(* after a playback ended by itself) the jaw scalar targetJawOpenRef is 0, *)
(* even if the morph meshes change (a model finishes loading) between the  *)
(* application of a viseme and the return to neutral.                      *)
(***************************************************************************)
\* as stated
C29_JawAtRestAsStated ==
  rafCallbacks = {} => targetJawOpenRef = Weight000

\* the mouth was returned to neutral after a model with morph meshes had
\* replaced a model with a jaw bone only, and the jaw scalar is still open
C29_Witness ==
  /\ rafCallbacks = {}
  /\ lastOp \in {"stop", "frame"}
  /\ applied # <<>>
  /\ applied[Len(applied)] = "neutral"
  /\ MouthNeutral
  /\ morphMeshesRef # <<>>
  /\ jawBoneRef # NULL
  /\ targetJawOpenRef = Weight090

====
